---- MODULE Spec2Model ----
(***************************************************************************)
(* TRADEFORK monitoring core: Trigger Engine + Signal Pipeline (hot poll   *)
(* loop), Trade Detector (trade poll loop) and Patrol, over a persistence  *)
(* layer with explicit units of work.                                      *)
(*                                                                         *)
(* Persistence.  `db` is the committed store.  Every job opens its own     *)
(* session (async_session_factory, db/session.py:58-62: no autocommit).    *)
(* A session works on a private view `tx`: flush() writes into the view,   *)
(* commit() copies the view into `db`, rollback() and close() without a    *)
(* commit throw the view away.                                             *)
(***************************************************************************)
EXTENDS Integers, Sequences, FiniteSets, TLC

\* ---------------------------------------------------------------- bounds
NTrig == 6
MaxTicks == 2
MaxPrice == 2
AlertValue == 1
HourStep == 24
MaxClockSteps == 1
MaxAlerts == 1

MaxOrders == 1
MaxTradeClock == 2
TimeStep == 5
OrderAmount == 1
EntryPrice == 2
QuoteHoldings == 10
MaxSignals == 2
PatrolStep == 25
MaxPatrolClock == 3
LiveTriggers == 4
QuietStep == 301
MaxQuietSteps == 1
MaxHistory == 5
MaxAsked == 1
MaxBurst == 2
MaxBurstClock == 3
BriefStep == 60
MaxBriefSteps == 66
\* Base streams and cache
MaxStreams == 2
MaxValue == 2
CacheStep == 60
MaxCacheSteps == 1
DayStep == 8
MaxDaySteps == 4

\* ------------------------------------------------------ program constants
PRO_DAILY_SIGNAL_LIMIT == 5
DUST_THRESHOLD_PERCENT == 1
DedupWindow == 10
DefaultLookback == 300
HOT_THRESHOLD_DAYS == 7
WARM_THRESHOLD_DAYS == 30
REDIS_HOT_TTL == 60
DefaultBriefingHour == 8
BriefingInterval == 300

NULL == 0 - 1

TrigIds == 1..NTrig
Prices == 0..MaxPrice

\* ------------------------------------------------------------------ state
VARIABLES
    db,      \* committed store
    hot,     \* _base_poll_loop: position, session view, triggers left to evaluate
    snap,    \* last_value of the user's hot price stream (NULL: never fetched)
    wall,     \* wall clock, seconds (UTC)
    resetDue,\* the 00:00 UTC cron tick of signal-count-reset is pending
    log,     \* observations of what the Trigger Engine did (history only)
    tp,      \* _trade_poll_loop: position, session view, open trades left to check
    exch,    \* the exchange account: filled orders and asset balances
    tlog,    \* observations of what the Trade Detector did (history only)
    pat,     \* patrol_job: position and session view
    plog,    \* observations of what Patrol did (history only)
    cache,   \* the Base cache: the entries held by Redis and by _mem_cache
    blog,    \* observations of what the Base cache and snapshot did (history only)
    brief    \* daily-briefing job: the scheduler's next run time, the briefings sent

vars == <<db, hot, snap, wall, resetDue, log, tp, exch, tlog, pat, plog, cache, blog,
          brief>>

triggerVars == <<hot, snap, resetDue, log>>
tradeVars == <<tp, exch, tlog>>
patrolVars == <<pat, plog>>
baseVars == <<cache, blog>>
briefVars == <<brief>>

Min(a, b) == IF a <= b THEN a ELSE b

Hour == 60 * 60
Day == 24 * Hour

\* datetime.date() of an instant
Date(s) == s \div Day

\* --------------------------------------------------------- Trigger Engine

\* trigger.py:335-345
extract_number(data, key) ==
    IF key \in DOMAIN data THEN data[key] ELSE NULL

\* trigger.py:189-266 (leaf conditions on the price stream; any other type
\* falls through to `return False`)
check_condition(trigger, current_data) ==
    LET cond == trigger.condition
        current_price == extract_number(current_data, "last")
    IN  IF cond.value = NULL THEN FALSE
        ELSE IF cond.type = "price_above"
             THEN current_price # NULL /\ current_price >= cond.value
        ELSE IF cond.type = "price_below"
             THEN current_price # NULL /\ current_price <= cond.value
        ELSE FALSE

\* trigger.py:85-122: deactivate, stamp, log the message, flush.
fire_alert(tx, t, now) ==
    [tx EXCEPT !.trig[t].is_active = FALSE,
               !.trig[t].triggered_at = now]

\* judge.py:180-192
check_signal_limit(user, now) ==
    LET u == IF user.daily_signal_reset_at # NULL
             THEN IF Date(user.daily_signal_reset_at) < Date(now)
                  THEN [user EXCEPT !.daily_signal_count = 0,
                                    !.daily_signal_reset_at = now]
                  ELSE user
             ELSE [user EXCEPT !.daily_signal_reset_at = now]
    IN  [user |-> u, ok |-> u.daily_signal_count < PRO_DAILY_SIGNAL_LIMIT]

\* episode.py:36-121.  The Episode row is added and flushed; when the vector
\* upsert raises, the handler calls session.rollback(), which discards every
\* flushed, uncommitted change of the session: the view falls back to `base`,
\* the store as last committed.
create_episode(tx, base, kind, ref, result, upsertOk) ==
    IF upsertOk
    THEN [tx |-> [tx EXCEPT !.episodes = Append(@, [episode_type |-> kind,
                                                   ref |-> ref,
                                                   result |-> result])],
          rolled |-> FALSE]
    ELSE [tx |-> base, rolled |-> TRUE]

\* judge.py:28-172: quota check, judge call, Signal row, count, message,
\* Episode.  The Signal row is written as judge.py:99-113 reads.  (The
\* Signal class of models.py:237-267 declares no confidence_style / _history /
\* _market attribute, the columns migrations.py:68-81 adds; with that class
\* the constructor raises, fire_signal logs it at trigger.py:180-181, and the
\* run ends like one whose judge call failed: the llmOk = FALSE outcome.)
judge_signal(tx, base, t, now, llmOk, upsertOk) ==
    LET lim == check_signal_limit(tx.user, now)
        tx1 == [tx EXCEPT !.user = lim.user]
    IN  IF ~lim.ok
        THEN [tx |-> tx1, denied |-> TRUE, judged |-> FALSE, signal |-> FALSE,
              rolled |-> FALSE, sent |-> 1]
        ELSE IF ~llmOk
        THEN [tx |-> tx1, denied |-> FALSE, judged |-> TRUE, signal |-> FALSE,
              rolled |-> FALSE, sent |-> 0]
        ELSE LET tx2 == [tx1 EXCEPT
                            !.signals = Append(@, [created_at |-> now,
                                                   signal_type |-> "trade_signal",
                                                   symbol |-> "SOL",
                                                   direction |-> "long",
                                                   trade_followed |-> "unset",
                                                   trade_result_pnl |-> NULL]),
                            !.user.daily_signal_count = @ + 1]
                 ep == create_episode(tx2, base, "signal", NULL, "none", upsertOk)
             IN  [tx |-> ep.tx, denied |-> FALSE, judged |-> TRUE,
                  signal |-> TRUE, rolled |-> ep.rolled, sent |-> 1]

\* trigger.py:128-181: stamp triggered_at, interim message, collector, judge.
\* is_active is not written anywhere on this path.
fire_signal(tx, base, t, now, collectOk, llmOk, upsertOk) ==
    LET tx1 == [tx EXCEPT !.trig[t].triggered_at = now]
    IN  IF ~collectOk
        THEN [tx |-> tx1, collected |-> TRUE, denied |-> FALSE, judged |-> FALSE,
              signal |-> FALSE, rolled |-> FALSE, sent |-> 1]
        ELSE LET j == judge_signal(tx1, base, t, now, llmOk, upsertOk)
             IN  [tx |-> j.tx, collected |-> TRUE, denied |-> j.denied,
                  judged |-> j.judged, signal |-> j.signal, rolled |-> j.rolled,
                  sent |-> 1 + j.sent]

RECURSIVE SortedSeq(_)
\* the ids of a set in ascending order
SortedSeq(S) ==
    IF S = {} THEN <<>>
    ELSE LET m == CHOOSE x \in S : \A y \in S : x <= y
         IN  <<m>> \o SortedSeq(S \ {m})

\* evaluate_all's query, trigger.py:49-56
ActiveTriggers(store) ==
    {t \in TrigIds : /\ store.trig[t].is_active
                     /\ store.trig[t].trigger_type \in {"alert", "signal"}}

\* the lists a SELECT without ORDER BY can return for the selected rows S:
\* every arrangement of S
QueryResults(S) ==
    {q \in [1..Cardinality(S) -> S] : \A a, b \in DOMAIN q : q[a] = q[b] => a = b}

NoFire == [trig |-> 0, kind |-> "none", collected |-> FALSE, denied |-> FALSE,
           judged |-> FALSE, signal |-> FALSE, completed |-> FALSE,
           sent |-> 0, active_after |-> FALSE]

\* main.py:353-401: one hot cycle up to the start of trigger matching.  The
\* fetched value (if any) is stored and committed; then the user's hot data is
\* read and evaluate_all loads the active alert/signal triggers.  The query
\* (trigger.py:49-56) has no ORDER BY, so the database returns the selected
\* rows in an order the program does not choose: triggers is the list it
\* returned, some arrangement of the selected rows.
HotTickBegin(fetched, triggers) ==
    /\ hot.pc = "idle"
    /\ log.ticks < MaxTicks
    /\ triggers \in QueryResults(ActiveTriggers(db))
    /\ LET value == IF fetched # NULL THEN fetched ELSE snap
       IN  /\ snap' = value
           /\ hot' = [pc |-> "eval",
                      queue |-> IF value = NULL THEN <<>> ELSE triggers,
                      tx |-> db,
                      data |-> value,
                      fired |-> FALSE]
    /\ log' = [log EXCEPT !.ticks = @ + 1]
    /\ UNCHANGED <<db, wall, resetDue, tradeVars, patrolVars, baseVars, briefVars>>

\* trigger.py:61-77: the loop body for the next loaded trigger.
\* After a rollback inside create_episode every loaded object is expired: the
\* next attribute access (judge.py:166, then the handlers at trigger.py:181,
\* trigger.py:76 and main.py:419, which all format an attribute of an expired
\* row) raises, and the error ends the tick at main.py:425.
HotEvalTrigger(collectOk, llmOk, upsertOk) ==
    /\ hot.pc = "eval"
    /\ hot.queue # <<>>
    /\ LET t == Head(hot.queue)
           trigger == hot.tx.trig[t]
           matched == check_condition(trigger, [last |-> hot.data])
       IN  IF ~matched
           THEN /\ hot' = [hot EXCEPT !.queue = Tail(@)]
                /\ UNCHANGED log
           ELSE IF trigger.trigger_type = "alert"
           THEN /\ hot' = [hot EXCEPT !.queue = Tail(@),
                                      !.tx = fire_alert(hot.tx, t, wall),
                                      !.fired = TRUE]
                /\ log' = [log EXCEPT
                             !.alertFires[t] = Min(@ + 1, 2),
                             !.lastFire = [NoFire EXCEPT !.trig = t,
                                                         !.kind = "alert",
                                                         !.sent = 1]]
           ELSE LET r == fire_signal(hot.tx, db, t, wall, collectOk, llmOk, upsertOk)
                IN  /\ hot' = IF r.rolled
                              THEN [hot EXCEPT !.pc = "idle", !.queue = <<>>,
                                               !.tx = db, !.fired = TRUE]
                              ELSE [hot EXCEPT !.queue = Tail(@), !.tx = r.tx,
                                               !.fired = TRUE]
                    /\ log' = [log EXCEPT
                                 !.signalsToday = IF r.signal /\ ~r.rolled
                                                  THEN Min(@ + 1, PRO_DAILY_SIGNAL_LIMIT + 1)
                                                  ELSE @,
                                 !.lastFire = [trig |-> t, kind |-> "signal",
                                               collected |-> r.collected,
                                               denied |-> r.denied,
                                               judged |-> r.judged,
                                               signal |-> r.signal,
                                               completed |-> r.signal /\ ~r.rolled,
                                               sent |-> r.sent,
                                               active_after |-> r.tx.trig[t].is_active],
                                 !.prev = IF r.rolled
                                          THEN [data |-> hot.data, fired |-> TRUE,
                                                whole |-> FALSE,
                                                rerun |-> @.whole /\ @.data = hot.data]
                                          ELSE @]
    /\ UNCHANGED <<db, snap, wall, resetDue, tradeVars, patrolVars, baseVars, briefVars>>

\* main.py:358 / 403-428: the loop over the triggers is done and the
\* `async with` block is left.  Nothing after main.py:392 commits, so closing
\* the session discards the view.
HotTickEnd ==
    /\ hot.pc = "eval"
    /\ hot.queue = <<>>
    /\ hot' = [hot EXCEPT !.pc = "idle", !.tx = db]
    /\ log' = [log EXCEPT !.prev = [data |-> hot.data, fired |-> hot.fired,
                                    whole |-> TRUE,
                                    rerun |-> @.whole /\ @.data = hot.data]]
    /\ UNCHANGED <<db, snap, wall, resetDue, tradeVars, patrolVars, baseVars, briefVars>>

\* the wall clock moves on (a tick is short against the clock's step, so the
\* clock is read between ticks); passing 00:00 UTC makes the reset cron due
ClockAdvance ==
    /\ hot.pc = "idle"
    /\ wall < HourStep * Hour * MaxClockSteps
    /\ wall' = wall + HourStep * Hour
    /\ resetDue' = (resetDue \/ Date(wall + HourStep * Hour) > Date(wall))
    /\ log' = IF Date(wall + HourStep * Hour) > Date(wall)
              THEN [log EXCEPT !.signalsToday = 0]
              ELSE log
    /\ UNCHANGED <<db, hot, snap, tradeVars, patrolVars, baseVars, briefVars>>

\* main.py:486-506: one UPDATE over the active users, committed.
daily_signal_reset_job ==
    /\ resetDue
    /\ resetDue' = FALSE
    /\ db' = [db EXCEPT !.user.daily_signal_count = 0,
                        !.user.daily_signal_reset_at = wall]
    /\ UNCHANGED <<hot, snap, wall, log, tradeVars, patrolVars, baseVars, briefVars>>

\* --------------------------------------------------------- Trade Detector

Symbols == {"SOL/USDT", "ETH/USDT"}
Sides == {"buy", "sell"}

\* trade.symbol.split("/")[0]
BaseOf(symbol) ==
    IF symbol = "SOL/USDT" THEN "SOL"
    ELSE IF symbol = "BTC/USDT" THEN "BTC" ELSE "ETH"

Assets == {BaseOf(s) : s \in Symbols}

\* what the ticker can report as `last`: below and above the entry price
TickerPrices == {EntryPrice - 1, EntryPrice + 1}

\* a fraction num/den with den > 0, or the number 0 as [num |-> 0, den |-> 1]
Zero == [num |-> 0, den |-> 1]

RECURSIVE SumBal(_, _)
\* trade_detector.py:90-93: the sum of the account's totals
SumBal(bal, S) ==
    IF S = {} THEN 0
    ELSE LET a == CHOOSE x \in S : TRUE
         IN  bal[a] + SumBal(bal, S \ {a})

\* trade_detector.py:33-45
is_dust_trade(cost, total_balance_value) ==
    IF total_balance_value <= 0 \/ cost <= 0 THEN TRUE
    ELSE cost * 100 < DUST_THRESHOLD_PERCENT * total_balance_value

\* a duplicate check that looks only at rows opened after the order
dedup_matches_later(trades, symbol, opened_at) ==
    {i \in DOMAIN trades :
        /\ trades[i].symbol = symbol
        /\ trades[i].opened_at > opened_at
        /\ trades[i].opened_at <= opened_at + DedupWindow}

\* trade_detector.py:160-168: the rows the duplicate check selects
dedup_matches(trades, symbol, opened_at) ==
    {i \in DOMAIN trades :
        /\ trades[i].symbol = symbol
        /\ trades[i].opened_at >= opened_at - DedupWindow
        /\ trades[i].opened_at <= opened_at + DedupWindow}

\* trade_detector.py:138-228.  st = [tx, db, err, hit]: the session view, the
\* store, whether scalar_one_or_none raised (two or more rows selected), and
\* whether the duplicate check has answered "already handled".
handle_new_trade(st, order) ==
    LET amount == order.amount
        cost == order.cost
        entry_price == IF amount > 0 THEN cost \div amount ELSE 0
        existing == dedup_matches(st.tx.trades, order.symbol, order.timestamp)
    IN  IF Cardinality(existing) >= 2
        THEN [st EXCEPT !.err = TRUE]
        ELSE IF existing # {}
        THEN [st EXCEPT !.hit = TRUE]
        ELSE LET trade == [symbol |-> order.symbol, side |-> order.side,
                           entry_price |-> entry_price, size |-> amount,
                           status |-> "open", opened_at |-> order.timestamp,
                           exit_price |-> NULL, pnl_percent |-> Zero,
                           pnl_amount |-> 0, closed_at |-> NULL,
                           episode_id |-> NULL]
                 tx1 == [st.tx EXCEPT !.trades = Append(@, trade),
                                      !.chat.trade_reasoning = @ + 1]
             IN  [st EXCEPT !.tx = tx1, !.db = tx1]

RECURSIVE handle_all(_, _, _, _)
\* trade_detector.py:103-118: the filter loop over the fetched orders
handle_all(st, new_trades, since, total_value) ==
    IF new_trades = <<>> \/ st.err THEN st
    ELSE LET trade_data == Head(new_trades)
             next == IF trade_data.timestamp <= since THEN st
                     ELSE IF is_dust_trade(trade_data.cost, total_value) THEN st
                     ELSE handle_new_trade(st, trade_data)
         IN  handle_all(next, Tail(new_trades), since, total_value)

\* onboarding.py:112-200: the account's filled orders from `since` on
fetch_all_orders(orders, since) ==
    SelectSeq(orders, LAMBDA o : o.timestamp >= since)

\* trade_detector.py:80-84: the start of the order-fetch window
poll_since(conn, clock) ==
    IF conn.last_checked_at # NULL THEN conn.last_checked_at
    ELSE clock - DefaultLookback

\* trade_detector.py:62-132 for the user's one connection
poll_trades(tx, store, orders, bal, clock, balOk, twice) ==
    LET since == poll_since(tx.conn, clock)
        total_value == IF balOk THEN QuoteHoldings + SumBal(bal, Assets) ELSE 0
        fetched == fetch_all_orders(orders, since)
        new_trades == IF twice THEN fetched \o fetched ELSE fetched
        st == handle_all([tx |-> tx, db |-> store, err |-> FALSE, hit |-> FALSE],
                         new_trades, since, total_value)
    IN  IF st.err THEN st
        ELSE [st EXCEPT !.tx.conn.last_checked_at = clock]

\* a close-detection query without the status filter
AllTrades(store) ==
    DOMAIN store.trades

\* detect_closed_trades' query, trade_detector.py:297-303
OpenTrades(store) ==
    {i \in DOMAIN store.trades : store.trades[i].status = "open"}

\* trade_detector.py:330-336
pnl_pct(trade, exit_price) ==
    IF exit_price # 0 /\ trade.entry_price # 0
    THEN IF trade.side \in {"buy", "long"}
         THEN [num |-> (exit_price - trade.entry_price) * 100, den |-> trade.entry_price]
         ELSE [num |-> (trade.entry_price - exit_price) * 100, den |-> trade.entry_price]
    ELSE Zero

\* trade_detector.py:362
pnl_amount(trade, exit_price) ==
    IF exit_price # 0 /\ trade.entry_price # 0
    THEN (exit_price - trade.entry_price) * trade.size
    ELSE 0

\* processor.py:304-316
directions_match(signal_direction, trade_side) ==
    \/ signal_direction \in {"long", "buy"} /\ trade_side \in {"long", "buy"}
    \/ signal_direction \in {"short", "sell"} /\ trade_side \in {"short", "sell"}

\* processor.py:269-301: the newest trade_signal of the trade's base symbol
\* created in [opened_at - 24h, opened_at + 1h]; NULL when there is none
find_related_signal(tx, trade) ==
    LET cand == {k \in DOMAIN tx.signals :
                    /\ tx.signals[k].signal_type = "trade_signal"
                    /\ tx.signals[k].created_at >= trade.opened_at - Day
                    /\ tx.signals[k].created_at <= trade.opened_at + Hour
                    /\ tx.signals[k].symbol = BaseOf(trade.symbol)}
    IN  IF cand = {} THEN NULL
        ELSE CHOOSE k \in cand :
                 \A j \in cand : \/ tx.signals[j].created_at < tx.signals[k].created_at
                                 \/ (tx.signals[j].created_at = tx.signals[k].created_at /\ j <= k)

\* processor.py:109-192
process_trade_result_feedback(tx, base, i, upsertOk) ==
    LET trade == tx.trades[i]
        k == find_related_signal(tx, trade)
    IN  IF trade.pnl_percent.num = 0 \/ k = NULL
        THEN [tx |-> tx, rolled |-> FALSE]
        ELSE LET signal == tx.signals[k]
                 tx1 == [tx EXCEPT !.signals[k].trade_followed = "true",
                                   !.signals[k].trade_result_pnl = trade.pnl_percent]
                 result_label ==
                     IF ~directions_match(signal.direction, trade.side) THEN "counter"
                     ELSE IF trade.pnl_percent.num > 0 THEN "hit" ELSE "miss"
             IN  create_episode(tx1, base, "feedback", k, result_label, upsertOk)

\* the closed trades, trade_detector.py:515-519 (pnl_percent is set on every
\* close, trade_detector.py:361)
ClosedTrades(store) ==
    {i \in DOMAIN store.trades : store.trades[i].status = "closed"}

RECURSIVE recent_closed(_, _, _)
\* trade_detector.py:514-523: the limit most recently closed trades of S,
\* newest first.  closed_at is the clock reading of the close
\* (trade_detector.py:363); of two equal readings the row stored later is
\* taken first.
recent_closed(store, S, limit) ==
    IF S = {} \/ limit = 0 THEN <<>>
    ELSE LET i == CHOOSE x \in S : \A y \in S :
                      \/ store.trades[y].closed_at < store.trades[x].closed_at
                      \/ (store.trades[y].closed_at = store.trades[x].closed_at /\ y <= x)
         IN  <<i>> \o recent_closed(store, S \ {i}, limit - 1)

RECURSIVE count_losses_no_break(_, _)
\* a count of the losing trades of recent that does not stop at the first
\* trade that is no loss
count_losses_no_break(store, recent) ==
    IF recent = <<>> THEN 0
    ELSE (IF store.trades[Head(recent)].pnl_percent.num < 0 THEN 1 ELSE 0)
         + count_losses_no_break(store, Tail(recent))

RECURSIVE consecutive_losses(_, _)
\* trade_detector.py:525-531
consecutive_losses(store, recent) ==
    IF recent = <<>> THEN 0
    ELSE IF store.trades[Head(recent)].pnl_percent.num < 0
         THEN 1 + consecutive_losses(store, Tail(recent))
         ELSE 0

\* trade_detector.py:537-545: the trades opened in the last hour
recent_count(store, now) ==
    Cardinality({i \in DOMAIN store.trades : store.trades[i].opened_at >= now - Hour})

\* trade_detector.py:509-550: the count of leading losses and the warning
\* returned ("none" for None)
check_risk_patterns(store, now) ==
    LET losses == consecutive_losses(store, recent_closed(store, ClosedTrades(store), 5))
    IN  [consecutive_losses |-> losses,
         warning |-> IF losses >= 3 THEN "losses"
                     ELSE IF recent_count(store, now) >= 3 THEN "fomo"
                     ELSE "none"]

NoRisk == [consecutive_losses |-> 0, warning |-> "none"]

\* trade_detector.py:359-364: the Trade row as the close writes it
update_trade(tx, i, exit_price, now) ==
    [tx EXCEPT !.trades[i].status = "closed",
               !.trades[i].exit_price = exit_price,
               !.trades[i].pnl_percent = pnl_pct(tx.trades[i], exit_price),
               !.trades[i].pnl_amount = pnl_amount(tx.trades[i], exit_price),
               !.trades[i].closed_at = now]

\* trade_detector.py:348-446.  A rollback inside either create_episode call
\* expires trade and user; the next attribute read (processor.py:191 is
\* caught at line 399, then trade.symbol at line 407, or user.id at line 427)
\* raises before the commit at line 434.  steps lists what the call went
\* through, in the order of the code: the risk checks (line 375), the Feedback
\* Learner (line 398), the trade Episode (lines 403-423), the message (line
\* 437).
handle_trade_close(tx, base, i, exit_price, now, fbUpsertOk, upsertOk) ==
    LET tx1 == update_trade(tx, i, exit_price, now)
        fb == process_trade_result_feedback(tx1, base, i, fbUpsertOk)
    IN  IF fb.rolled THEN [tx |-> base, raised |-> TRUE,
                           steps |-> <<"risk", "feedback">>]
        ELSE LET ep == create_episode(fb.tx, base, "trade", i, "none", upsertOk)
             IN  IF ep.rolled THEN [tx |-> base, raised |-> TRUE,
                                    steps |-> <<"risk", "feedback", "episode">>]
                 ELSE [tx |-> [ep.tx EXCEPT !.trades[i].episode_id = Len(ep.tx.episodes),
                                            !.chat.trade_close = @ + 1],
                       raised |-> FALSE,
                       steps |-> <<"risk", "feedback", "episode", "message">>]

\* trade_detector.py:375: the outcome of the risk checks of that call, whose
\* warning goes into the close message (trade_detector.py:394-395)
risk_warning(tx, i, exit_price, now) ==
    check_risk_patterns(update_trade(tx, i, exit_price, now), now)

NoPoll == [at |-> NULL, since |-> NULL, last |-> NULL]

\* the Trade rows of the store: one per order, and one held from before
TradeIds == 1..(MaxOrders + 1)

NoClose == [trade |-> 0, upsert_failed |-> FALSE, steps |-> <<>>, risk |-> NoRisk]

\* main.py:297-306: a trade-poll cycle opens its session
TradeTickBegin ==
    /\ tp.pc = "idle"
    /\ tp' = [pc |-> "poll", tx |-> db, queue |-> <<>>]
    /\ UNCHANGED <<db, wall, exch, tlog, triggerVars, patrolVars, baseVars, briefVars>>

\* main.py:297-314 where the user query returns a second user ahead of the
\* modelled one: the session is opened and the loop body runs for that user
\* first.  They have one connection, no new order and no open trade, so
\* poll_trades writes their connection's last_checked_at and flushes
\* (trade_detector.py:119-121); db.peer is that connection row.
TradeTickBeginPeer ==
    /\ tp.pc = "idle"
    /\ tp' = [pc |-> "poll", tx |-> [db EXCEPT !.peer.last_checked_at = wall],
              queue |-> <<>>]
    /\ UNCHANGED <<db, wall, exch, tlog, triggerVars, patrolVars, baseVars, briefVars>>

\* main.py:310 with trade_detector.py:62-132, then the query that opens
\* detect_closed_trades (trade_detector.py:297-303).  An error raised inside
\* the connection's block is logged at trade_detector.py:124-130.  When
\* tlog.watch is set, tlog.poll keeps the window of this poll (at: the poll
\* time, NULL when the block raised; last: last_checked_at as read) and
\* tlog.dusted the orders of the window that the dust filter dropped while
\* the balance fetch had failed.
PollTrades(balOk, twice) ==
    /\ tp.pc = "poll"
    /\ LET r == poll_trades(tp.tx, db, exch.orders, exch.bal, wall, balOk, twice)
           since == poll_since(tp.tx.conn, wall)
       IN  /\ db' = r.db
           /\ tp' = [pc |-> "detect", tx |-> r.tx,
                     queue |-> SortedSeq(OpenTrades(r.tx))]
           /\ tlog' = IF tlog.watch
                      THEN [tlog EXCEPT
                               !.hit = @ \/ r.hit,
                               !.poll = [at |-> IF r.err THEN NULL ELSE wall,
                                         since |-> since,
                                         last |-> tp.tx.conn.last_checked_at],
                               !.dusted = IF balOk THEN @
                                          ELSE @ \cup {n \in DOMAIN exch.orders :
                                                          exch.orders[n].timestamp > since}]
                      ELSE [tlog EXCEPT !.hit = @ \/ r.hit]
    /\ UNCHANGED <<wall, exch, triggerVars, patrolVars, baseVars, briefVars>>

\* main.py:310 with trade_detector.py:78-99: the first half of poll_trades,
\* up to the answer of _fetch_all_orders.  tp.queue keeps what the second
\* half works on: the window start, the balance total and the fetched orders.
PollFetch ==
    /\ tp.pc = "poll"
    /\ LET since == poll_since(tp.tx.conn, wall)
       IN  tp' = [tp EXCEPT
                     !.pc = "fetched",
                     !.queue = <<[since |-> since,
                                  total_value |-> QuoteHoldings + SumBal(exch.bal, Assets),
                                  new_trades |-> fetch_all_orders(exch.orders, since)]>>]
    /\ UNCHANGED <<db, wall, exch, tlog, triggerVars, patrolVars, baseVars, briefVars>>

\* time that passes between the answer of the exchange and the end of
\* poll_trades (the filter loop and, per new trade, the LLM call of
\* trade_detector.py:188)
PollLatency ==
    /\ tp.pc = "fetched"
    /\ wall % QuietStep < TimeStep * MaxTradeClock
    /\ wall' = wall + TimeStep
    /\ UNCHANGED <<db, tp, exch, tlog, triggerVars, patrolVars, baseVars, briefVars>>

\* the user fills an order while poll_trades is between its fetch and its
\* end; tlog.raced keeps the order's place in the account's list
FillDuringPoll(symbol, side) ==
    /\ tp.pc = "fetched"
    /\ Len(exch.orders) < MaxOrders
    /\ exch' = [orders |-> Append(exch.orders,
                              [symbol |-> symbol, side |-> side,
                               amount |-> OrderAmount,
                               cost |-> EntryPrice * OrderAmount,
                               timestamp |-> wall]),
                bal |-> [exch.bal EXCEPT ![BaseOf(symbol)] =
                                            IF side = "buy" THEN @ + OrderAmount ELSE 0]]
    /\ tlog' = [tlog EXCEPT !.raced = @ \cup {Len(exch.orders) + 1}]
    /\ UNCHANGED <<db, wall, tp, triggerVars, patrolVars, baseVars, briefVars>>

\* trade_detector.py:102-130, then the query that opens detect_closed_trades
\* (trade_detector.py:297-303): the second half of poll_trades, which filters
\* and handles the fetched orders and writes last_checked_at = now
PollRecord ==
    /\ tp.pc = "fetched"
    /\ LET f == Head(tp.queue)
           st == handle_all([tx |-> tp.tx, db |-> db, err |-> FALSE, hit |-> FALSE],
                            f.new_trades, f.since, f.total_value)
           r == IF st.err THEN st ELSE [st EXCEPT !.tx.conn.last_checked_at = wall]
       IN  /\ db' = r.db
           /\ tp' = [pc |-> "detect", tx |-> r.tx,
                     queue |-> SortedSeq(OpenTrades(r.tx))]
           /\ tlog' = [tlog EXCEPT !.hit = @ \/ r.hit]
    /\ UNCHANGED <<wall, exch, triggerVars, patrolVars, baseVars, briefVars>>

\* trade_detector.py:310-345: the loop body for the next open trade.  When
\* handle_trade_close raises after its rollback, the handler at line 339
\* formats trade.id of the expired row and raises again, and so does the
\* handler at main.py:317; the cycle ends at main.py:321.  When tlog.watch is
\* set, tlog.lastClose keeps the steps of the close handling; when tlog.risks
\* is set, also the outcome of its risk checks.
DetectClosed(balOk, tickerOk, last, fbUpsertOk, upsertOk) ==
    /\ tp.pc = "detect"
    /\ tp.queue # <<>>
    /\ LET i == Head(tp.queue)
           trade == tp.tx.trades[i]
           remaining == exch.bal[BaseOf(trade.symbol)]
           exit_price == IF tickerOk THEN last ELSE 0
           r == handle_trade_close(tp.tx, db, i, exit_price, wall, fbUpsertOk, upsertOk)
           again == db.trades[i].status = "closed"
       IN  IF ~balOk \/ ~(remaining * 10 < trade.size)
           THEN /\ tp' = [tp EXCEPT !.queue = Tail(@)]
                /\ UNCHANGED <<db, tlog>>
           ELSE IF r.raised
           THEN /\ tp' = [pc |-> "idle", tx |-> db, queue |-> <<>>]
                /\ tlog' = [tlog EXCEPT
                              !.closes[i] = IF again THEN 2 ELSE @,
                              !.lastClose = [trade |-> i, upsert_failed |-> TRUE,
                                             steps |-> IF tlog.watch THEN r.steps
                                                       ELSE <<>>,
                                             risk |-> IF tlog.risks
                                                      THEN risk_warning(tp.tx, i,
                                                               exit_price, wall)
                                                      ELSE NoRisk]]
                /\ UNCHANGED db
           ELSE /\ db' = r.tx
                /\ tp' = [tp EXCEPT !.queue = Tail(@), !.tx = r.tx]
                /\ tlog' = [tlog EXCEPT
                              !.closes[i] = IF again THEN 2 ELSE Min(@ + 1, 2),
                              !.lastClose = [trade |-> i, upsert_failed |-> FALSE,
                                             steps |-> IF tlog.watch THEN r.steps
                                                       ELSE <<>>,
                                             risk |-> IF tlog.risks
                                                      THEN risk_warning(tp.tx, i,
                                                               exit_price, wall)
                                                      ELSE NoRisk]]
    /\ UNCHANGED <<wall, exch, triggerVars, patrolVars, baseVars, briefVars>>

\* a >= b for fractions with positive denominators
RatGeq(a, b) == a.num * b.den >= b.num * a.den

RECURSIVE RatSum(_, _)
\* sum(...) over the pnl_percent of the trades S, position_tracker.py:150-151
RatSum(trades, S) ==
    IF S = {} THEN Zero
    ELSE LET i == CHOOSE x \in S : TRUE
             rest == RatSum(trades, S \ {i})
             p == trades[i].pnl_percent
         IN  [num |-> p.num * rest.den + rest.num * p.den, den |-> p.den * rest.den]

\* position_tracker.py:131-153: the averages over the closed trades, with the
\* defaults 12 and -5 when there is no win or no loss
get_stats(tx) ==
    LET closed == {i \in DOMAIN tx.trades : tx.trades[i].status = "closed"}
        wins == {i \in closed : tx.trades[i].pnl_percent.num > 0}
        losses == {i \in closed : tx.trades[i].pnl_percent.num < 0}
    IN  [avg_win |-> IF wins = {} THEN [num |-> 12, den |-> 1]
                     ELSE [num |-> RatSum(tx.trades, wins).num,
                           den |-> RatSum(tx.trades, wins).den * Cardinality(wins)],
         avg_loss |-> IF losses = {} THEN [num |-> 0 - 5, den |-> 1]
                      ELSE [num |-> RatSum(tx.trades, losses).num,
                            den |-> RatSum(tx.trades, losses).den * Cardinality(losses)]]

\* position_tracker.py:156-182: the user has stated no principle that names
\* a stop loss
extract_stop_loss(tx) == NULL

\* position_tracker.py:95-128: the threshold the commentary is about, "none"
\* when the result is None
build_commentary(pnl, stats, stop_loss_pct) ==
    IF stats.avg_win.num > 0 /\ pnl.num > 0 /\ RatGeq(pnl, stats.avg_win)
    THEN "avg_win"
    ELSE IF stop_loss_pct # NULL /\ stop_loss_pct # 0 /\ pnl.num < 0
            /\ 0 - pnl.num >= (0 - stop_loss_pct) * pnl.den
    THEN "stop_loss"
    ELSE IF stats.avg_loss.num < 0 /\ pnl.num < 0 /\ RatGeq(stats.avg_loss, pnl)
    THEN "avg_loss"
    ELSE "none"

\* the prices fetch_ticker answers for an open position; 0: the fetch failed
\* or answered no price (position_tracker.py:51-59)
PositionPrices == TickerPrices \cup {EntryPrice, 0}

\* main.py:316 with position_tracker.py:19-92: for every open trade with an
\* entry price and a current price (prices) the P&L is computed and compared with the
\* thresholds; a commentary is stored and committed (line 82) and sent.
\* Without one nothing is committed.  When tlog.watch is set, tlog.beyond
\* keeps, per trade, the threshold this tick commented on and tlog.repeat the
\* trades that got a commentary on the threshold the tick before had already
\* commented on.
monitor_positions ==
    /\ tp.pc = "detect"
    /\ tp.queue = <<>>
    /\ \E prices \in [OpenTrades(tp.tx) -> PositionPrices] :
       LET stats == get_stats(tp.tx)
           stop_loss_pct == extract_stop_loss(tp.tx)
           commentary == [i \in TradeIds |->
               IF i \in OpenTrades(tp.tx) /\ tp.tx.trades[i].entry_price # 0
                  /\ prices[i] # 0
               THEN build_commentary(pnl_pct(tp.tx.trades[i], prices[i]),
                                     stats, stop_loss_pct)
               ELSE "none"]
       IN  /\ IF \E i \in TradeIds : commentary[i] # "none"
              THEN /\ db' = [tp.tx EXCEPT !.chat.position_commentary = TRUE]
                   /\ tp' = [tp EXCEPT !.pc = "end", !.tx = db']
              ELSE /\ tp' = [tp EXCEPT !.pc = "end"]
                   /\ UNCHANGED db
           /\ tlog' = IF tlog.watch
                      THEN [tlog EXCEPT
                               !.beyond = commentary,
                               !.repeat = @ \cup {i \in TradeIds :
                                                     /\ commentary[i] # "none"
                                                     /\ commentary[i] = tlog.beyond[i]}]
                      ELSE tlog
    /\ UNCHANGED <<wall, exch, triggerVars, patrolVars, baseVars, briefVars>>

\* main.py:299/324: the `async with` block is left; what was flushed and not
\* committed (a last_checked_at, for one) is gone
TradeTickEnd ==
    /\ tp.pc = "end"
    /\ tp' = [pc |-> "idle", tx |-> db, queue |-> <<>>]
    /\ UNCHANGED <<db, wall, exch, tlog, triggerVars, patrolVars, baseVars, briefVars>>

\* the user fills an order on the exchange: a buy adds to the asset's
\* balance, a sell empties it
PlaceOrder(symbol, side) ==
    /\ tp.pc = "idle"
    /\ Len(exch.orders) < MaxOrders
    /\ exch' = [orders |-> Append(exch.orders,
                              [symbol |-> symbol, side |-> side,
                               amount |-> OrderAmount,
                               cost |-> EntryPrice * OrderAmount,
                               timestamp |-> wall]),
                bal |-> [exch.bal EXCEPT ![BaseOf(symbol)] =
                                            IF side = "buy" THEN @ + OrderAmount ELSE 0]]
    /\ UNCHANGED <<db, wall, tp, tlog, triggerVars, patrolVars, baseVars, briefVars>>

\* the user moves an asset out of the account
Withdraw(asset) ==
    /\ tp.pc = "idle"
    /\ exch.bal[asset] > 0
    /\ exch' = [exch EXCEPT !.bal[asset] = 0]
    /\ UNCHANGED <<db, wall, tp, tlog, triggerVars, patrolVars, baseVars, briefVars>>

\* the wall clock moves on by TimeStep seconds
TradeClock ==
    /\ tp.pc = "idle"
    /\ wall < TimeStep * MaxTradeClock
    /\ wall' = wall + TimeStep
    /\ UNCHANGED <<db, tp, exch, tlog, triggerVars, patrolVars, baseVars, briefVars>>

\* the wall clock moves on by QuietStep seconds while the loop sleeps between
\* two cycles (main.py:324) and further cycles pass that leave nothing behind
QuietClock ==
    /\ tp.pc = "idle"
    /\ wall < QuietStep * MaxQuietSteps
    /\ wall' = wall + QuietStep
    /\ UNCHANGED <<db, tp, exch, tlog, triggerVars, patrolVars, baseVars, briefVars>>

\* ---------------------------------------------------- Base streams, cache

\* a BaseStream row without a symbol (models.py:199, nullable)
NoSymbol == "None"

\* the (stream_type, symbol) pairs a chat reply asks for
StreamKinds == {<<"price", "BTC">>, <<"news", NoSymbol>>}

\* the data a fetch returns (main.py:363-367 stores only truthy data)
Values == 1..MaxValue

\* base.py:116-119, without the constant prefix and user id
cache_key(stream_type, symbol) ==
    <<stream_type, IF symbol = NoSymbol THEN "all" ELSE symbol>>

Keys == {cache_key(k[1], k[2]) : k \in StreamKinds}

\* json.dumps / json.loads of a fetched value, base.py:86 and 102/110
json_dumps(value) == [json |-> value]

json_loads(val_str) == val_str.json

\* base.py:83-93.  redisOk: the client exists and r.set succeeds; otherwise
\* (no client, or r.set raises) the entry goes to _mem_cache.
cache_set(c, key, value, ttl, now, redisOk) ==
    LET entry == [val_str |-> json_dumps(value), expires_at |-> now + ttl]
    IN  IF redisOk
        THEN [c EXCEPT !.redis[key] = <<entry>>]
        ELSE [c EXCEPT !.mem[key] = <<entry>>]

\* base.py:96-113.  With a working client the answer is Redis' alone (a key
\* Redis does not hold, or has expired, gives None at line 103); only
\* without a client or when r.get raises is _mem_cache read, and an expired
\* entry deleted from it.
cache_get(c, key, now, redisOk) ==
    IF redisOk
    THEN [value |-> IF c.redis[key] # <<>> /\ now < c.redis[key][1].expires_at
                    THEN json_loads(c.redis[key][1].val_str)
                    ELSE NULL,
          cache |-> c]
    ELSE IF c.mem[key] = <<>>
         THEN [value |-> NULL, cache |-> c]
         ELSE IF now < c.mem[key][1].expires_at
              THEN [value |-> json_loads(c.mem[key][1].val_str), cache |-> c]
              ELSE [value |-> NULL, cache |-> [c EXCEPT !.mem[key] = <<>>]]

\* the rows of a temperature, base.py:274-280 and 316-320
StreamsOf(store, temperature) ==
    {i \in DOMAIN store.streams : store.streams[i].temperature = temperature}

\* base.py:282-289: the loop of get_hot_data over the hot rows ids; data maps
\* "{stream_type}/{symbol or 'all'}" to the value, NULL for a key not in it
RECURSIVE hot_data_loop(_, _, _, _, _, _)
hot_data_loop(store, c, data, ids, now, redisOk) ==
    IF ids = <<>> THEN [data |-> data, cache |-> c]
    ELSE LET s == store.streams[Head(ids)]
             key == cache_key(s.stream_type, s.symbol)
             r == cache_get(c, key, now, redisOk)
             data1 == IF r.value # NULL THEN [data EXCEPT ![key] = r.value]
                      ELSE IF s.last_value # NULL
                           THEN [data EXCEPT ![key] = s.last_value]
                           ELSE data
         IN  hot_data_loop(store, r.cache, data1, Tail(ids), now, redisOk)

\* base.py:267-289
get_hot_data(store, c, now, redisOk) ==
    hot_data_loop(store, c, [k \in Keys |-> NULL],
                  SortedSeq(StreamsOf(store, "hot")), now, redisOk)

\* base.py:215-263 when the second query did not see what the first loop
\* assigned
auto_transition_no_autoflush(store, now) ==
    [store EXCEPT !.streams = [i \in DOMAIN @ |->
        IF @[i].temperature = "hot"
           /\ @[i].last_mentioned_at < now - HOT_THRESHOLD_DAYS * Day
        THEN [@[i] EXCEPT !.temperature = "warm"]
        ELSE IF @[i].temperature = "warm"
                /\ @[i].last_mentioned_at < now - WARM_THRESHOLD_DAYS * Day
             THEN [@[i] EXCEPT !.temperature = "cold"]
             ELSE @[i]]]

\* base.py:215-263: hot rows older than the hot cutoff become warm; the
\* second query autoflushes (async_sessionmaker default, db/session.py:58-62)
\* and so selects among the rows that are warm by then
auto_transition_temperatures(store, now) ==
    LET warmed == [i \in DOMAIN store.streams |->
            IF store.streams[i].temperature = "hot"
               /\ store.streams[i].last_mentioned_at < now - HOT_THRESHOLD_DAYS * Day
            THEN [store.streams[i] EXCEPT !.temperature = "warm"]
            ELSE store.streams[i]]
    IN  [store EXCEPT !.streams = [i \in DOMAIN warmed |->
            IF warmed[i].temperature = "warm"
               /\ warmed[i].last_mentioned_at < now - WARM_THRESHOLD_DAYS * Day
            THEN [warmed[i] EXCEPT !.temperature = "cold"]
            ELSE warmed[i]]]

\* the default preset of create_default_preset, base.py:142-155
Presets ==
    {<<"price", "BTC">>, <<"price", "ETH">>, <<"funding", "BTC">>,
     <<"funding", "ETH">>, <<"oi", "BTC">>, <<"oi", "ETH">>,
     <<"news", NoSymbol>>, <<"indicator", "fear_greed">>, <<"spread", "kimchi">>}

\* a row as chat.py:154-160 / 166-172 builds it: last_mentioned_at is the
\* server default now() (models.py:202), last_value NULL
NewStream(kind, now) ==
    [stream_type |-> kind[1], symbol |-> kind[2], temperature |-> "hot",
     last_mentioned_at |-> now, last_value |-> NULL]

\* handlers.py:300-313 with onboarding.py:375-445: the style text is stored
\* and onboarding_step becomes 4; committed at handlers.py:312
handle_style_input ==
    /\ db.user.onboarding_step = 3
    /\ db' = [db EXCEPT !.user.onboarding_step = 4]
    /\ UNCHANGED <<wall, triggerVars, tradeVars, patrolVars, baseVars, briefVars>>

\* the exchanges of the selection keyboard, keyboards.py:12-15
Exchanges == {"binance", "upbit", "bithumb"}

\* auth.py:17-32: get_or_create_user for the stored user stamps
\* last_active_at
touch_user(store, now) == [store EXCEPT !.user.last_active_at = now]

\* handlers.py:32-98, /start.  db.connections holds the exchanges of the
\* user's active ExchangeConnection rows.  A user of stage 4 is only greeted;
\* a user with a connection is taken through the 30-day analysis (stage 2
\* while it runs, stage 3 when the handler commits at line 79); any other
\* user is sent the exchange keyboard and stored with stage 1 (lines 83, 98).
start_command ==
    /\ LET touched == touch_user(db, wall)
       IN  db' = IF db.user.onboarding_step >= 4 THEN touched
                 ELSE IF db.connections # {}
                 THEN [touched EXCEPT !.user.onboarding_step = 3]
                 ELSE [touched EXCEPT !.user.onboarding_step = 1]
    /\ UNCHANGED <<wall, triggerVars, tradeVars, patrolVars, baseVars, briefVars>>

\* handlers.py:524-552, the "ex:done" button, which both keyboards carry
\* (keyboards.py:17, 52): refused from stage 3 on, else the 30-day analysis
\* as in /start and stage 3, committed at line 548.  The button is on screen
\* once /start has sent the exchange keyboard (handlers.py:93-97).
callback_done ==
    /\ db.user.onboarding_step >= 1
    /\ LET touched == touch_user(db, wall)
       IN  db' = IF db.user.onboarding_step >= 3 THEN touched
                 ELSE [touched EXCEPT !.user.onboarding_step = 3]
    /\ UNCHANGED <<wall, triggerVars, tradeVars, patrolVars, baseVars, briefVars>>

\* handlers.py:277-297 with onboarding.py:84-109 and auth.py:51-118: a text
\* sent at stage 1 after exchange_name was picked from the keyboard
\* (handlers.py:554-563); connected tells whether the exchange accepted the
\* keys.  The stage is not written.
handle_api_key_input(exchange_name, connected) ==
    /\ db.user.onboarding_step = 1
    /\ LET touched == touch_user(db, wall)
       IN  db' = IF connected
                 THEN [touched EXCEPT !.connections = @ \cup {exchange_name}]
                 ELSE touched
    /\ UNCHANGED <<wall, triggerVars, tradeVars, patrolVars, baseVars, briefVars>>

\* handlers.py:406-420 with chat.py:150-174: the reply's trigger_action lists
\* the streams in needed, its base_addition is the stream in addition (each
\* <<>> when the reply has none); every listed stream is added as a new row;
\* committed at handlers.py:420
chat_post_process(needed, addition) ==
    /\ db.user.onboarding_step >= 4
    /\ Len(db.streams) + Len(needed) + Len(addition) <= MaxStreams
    /\ db' = [db EXCEPT !.streams =
                 @ \o [n \in DOMAIN needed |-> NewStream(needed[n], wall)]
                   \o [n \in DOMAIN addition |-> NewStream(addition[n], wall)]]
    /\ UNCHANGED <<wall, triggerVars, tradeVars, patrolVars, baseVars, briefVars>>

\* main.py:358-392 for one hot or warm row whose fetch returned data, with
\* update_stream_value (base.py:297-308): last_value is written and, for a
\* hot row, the cache entry set; committed at main.py:392
PollStream(i, data, redisOk) ==
    /\ i \in StreamsOf(db, "hot") \cup StreamsOf(db, "warm")
    /\ LET s == db.streams[i]
           key == cache_key(s.stream_type, s.symbol)
       IN  /\ db' = [db EXCEPT !.streams[i].last_value = data]
           /\ IF s.temperature = "hot"
              THEN /\ cache' = cache_set(cache, key, data, REDIS_HOT_TTL, wall, redisOk)
                   /\ blog' = [blog EXCEPT !.lastSet[key] =
                                  <<[value |-> data, expires_at |-> wall + REDIS_HOT_TTL]>>]
              ELSE UNCHANGED <<cache, blog>>
    /\ UNCHANGED <<wall, triggerVars, tradeVars, patrolVars, briefVars>>

\* main.py:395-405 with get_hot_data: the snapshot handed to the Trigger
\* Engine, kept in blog.snap
HotSnapshot(redisOk) ==
    /\ db.user.onboarding_step >= 4
    /\ LET r == get_hot_data(db, cache, wall, redisOk)
       IN  /\ cache' = r.cache
           /\ blog' = [blog EXCEPT !.snap = r.data]
    /\ UNCHANGED <<db, wall, triggerVars, tradeVars, patrolVars, briefVars>>

\* main.py:449-480: the temperature-mgmt job, committed at main.py:474
temperature_management_job ==
    /\ db' = auto_transition_temperatures(db, wall)
    /\ UNCHANGED <<wall, triggerVars, tradeVars, patrolVars, baseVars, briefVars>>

\* the wall clock moves on by CacheStep seconds
CacheClock ==
    /\ wall < CacheStep * MaxCacheSteps
    /\ wall' = wall + CacheStep
    /\ UNCHANGED <<db, triggerVars, tradeVars, patrolVars, baseVars, briefVars>>

\* the wall clock moves on by DayStep days
DayClock ==
    /\ wall < DayStep * Day * MaxDaySteps
    /\ wall' = wall + DayStep * Day
    /\ UNCHANGED <<db, triggerVars, tradeVars, patrolVars, baseVars, briefVars>>

\* ---------------------------------------------------------- Daily briefing

\* datetime.now(kst).hour and .minute, main.py:554-557 (KST = UTC + 9 h)
kst_hour(now) == ((now \div Hour) + 9) % 24

kst_minute(now) == (now \div 60) % 60

\* main.py:209-219: the interval job is added and the scheduler started; the
\* first run is due one interval later
scheduler_start ==
    /\ brief.next = NULL
    /\ brief' = [brief EXCEPT !.next = wall + BriefingInterval]
    /\ UNCHANGED <<db, wall, triggerVars, tradeVars, patrolVars, baseVars>>

\* main.py:544-585 with briefing.py:33-75, run by the scheduler every
\* BriefingInterval seconds (main.py:210-217).  The scheduler (main.py:165,
\* an AsyncIOScheduler with its defaults) wakes at or after the due time and
\* rolls the run times that have come due into the latest one, which is less
\* than one interval old and so within the grace time; the next run is due one
\* interval after that one.  Outside minutes 0-4 the handler returns.  The query at
\* main.py:564-570 names User.briefing_hour, the column migrations.py:54-65
\* adds and handlers.py:346-352 writes; the User class of models.py:32-50
\* declares no such attribute, and with that class the query raises and the
\* handler at main.py:584 logs it: the mapped = FALSE outcome.  A briefing
\* whose send raises stores nothing (briefing.py:71-74).  The ChatMessage
\* rows are committed at main.py:581.
daily_briefing_job(mapped, sendOk) ==
    /\ brief.next # NULL
    /\ wall >= brief.next
    /\ LET run_time == brief.next
                        + BriefingInterval * ((wall - brief.next) \div BriefingInterval)
           emits == /\ kst_minute(wall) <= 4
                    /\ mapped
                    /\ db.user.onboarding_step >= 4
                    /\ db.user.briefing_hour = kst_hour(wall)
                    /\ sendOk
       IN  /\ brief' = [next |-> run_time + BriefingInterval,
                        sent |-> IF emits THEN Append(brief.sent, wall)
                                 ELSE brief.sent]
           /\ db' = IF emits THEN [db EXCEPT !.chat.daily_briefing = @ + 1]
                    ELSE db
    /\ UNCHANGED <<wall, triggerVars, tradeVars, patrolVars, baseVars>>

\* handlers.py:340-356: the user sets the briefing hour; committed
set_briefing_hour(hour) ==
    /\ db.user.briefing_hour # hour
    /\ db' = [db EXCEPT !.user.briefing_hour = hour]
    /\ UNCHANGED <<wall, triggerVars, tradeVars, patrolVars, baseVars, briefVars>>

\* the wall clock moves on by BriefStep seconds
BriefClock ==
    /\ wall < BriefStep * MaxBriefSteps
    /\ wall' = wall + BriefStep
    /\ UNCHANGED <<db, triggerVars, tradeVars, patrolVars, baseVars, briefVars>>

\* ------------------------------------------------------------------ Patrol

\* patrol.py:405-420: a user inactive for more than 24 h is patrolled only
\* on even hours
should_skip_patrol(user, now) ==
    IF user.last_active_at = NULL THEN FALSE
    ELSE IF now - user.last_active_at > 24 * Hour
         THEN ((now \div Hour) % 24) % 2 # 0
         ELSE FALSE

\* check_unfollowed_signals' query, processor.py:208-218
Unfollowed(store, now) ==
    {k \in DOMAIN store.signals :
        /\ store.signals[k].signal_type = "trade_signal"
        /\ store.signals[k].trade_followed = "unset"
        /\ store.signals[k].created_at < now - 24 * Hour}

\* the query of _evaluate_llm_triggers, patrol.py:176-182; the rows Patrol
\* added (store.auto, all of them llm_evaluated) have the ids after NTrig
LlmTriggers(store) ==
    {t \in TrigIds : /\ store.trig[t].trigger_type = "llm_evaluated"
                     /\ store.trig[t].is_active}
    \cup {NTrig + n : n \in {m \in DOMAIN store.auto : store.auto[m].is_active}}

\* the query of _process_deferred_requests, patrol.py:241-249
DeferredTriggers(store) ==
    {t \in TrigIds : /\ store.trig[t].trigger_type = "llm_evaluated"
                     /\ store.trig[t].source = "user_request"
                     /\ store.trig[t].is_active
                     /\ store.trig[t].triggered_at = NULL}

\* the figure a fetched price record carries in change_24h_pct, an open
\* interest record in change_pct and a funding record in rate (in percent):
\* value 1 is a quiet market, each further value one threshold more
change_24h_pct(value) == 10 * (value - 1)
change_pct(value) == 15 * (value - 1)
rate_pct(value) == 5 * (value - 1)

\* patrol.py:509-566: <<>> for no anomaly, else the one anomaly; detail is
\* the formatted text, which holds the symbol and the figure
detect_anomaly(stream_type, symbol, value) ==
    IF stream_type = "price" /\ change_24h_pct(value) >= 10
    THEN <<[symbol |-> symbol,
            detail |-> <<symbol, "24h", change_24h_pct(value)>>,
            severity |-> IF change_24h_pct(value) >= 20 THEN "high" ELSE "medium"]>>
    ELSE IF stream_type = "funding" /\ rate_pct(value) >= 5
    THEN <<[symbol |-> symbol,
            detail |-> <<symbol, "funding", rate_pct(value)>>,
            severity |-> "high"]>>
    ELSE IF stream_type = "oi" /\ change_pct(value) >= 15
    THEN <<[symbol |-> symbol,
            detail |-> <<symbol, "OI", change_pct(value)>>,
            severity |-> "medium"]>>
    ELSE <<>>

\* the details an anomaly of the streams in use can have
AnomalyDetails ==
    {a[1].detail : a \in {detect_anomaly(k[1], k[2], v) :
                             k \in StreamKinds, v \in Values} \ {<<>>}}

\* patrol.py:134-160: the anomalies of the hot and warm rows that have a
\* value, in the order of the rows ids
RECURSIVE anomalies_of(_, _)
anomalies_of(store, ids) ==
    IF ids = <<>> THEN <<>>
    ELSE LET stream == store.streams[Head(ids)]
         IN  detect_anomaly(stream.stream_type, stream.symbol, stream.last_value)
             \o anomalies_of(store, Tail(ids))

check_base_anomalies(store) ==
    anomalies_of(store,
        SortedSeq({i \in StreamsOf(store, "hot") \cup StreamsOf(store, "warm") :
                      store.streams[i].last_value # NULL}))

\* pattern.py:45-56 with patrol.py:320-326: the base assets of the symbols
\* in the Trade rows; most_common(5) keeps them all as long as the user has
\* traded at most five symbols.  Empty for a user without Trade rows
\* (pattern.py:51-52, 189-192).
primary_symbols(store) ==
    {BaseOf(store.trades[i].symbol) : i \in DOMAIN store.trades}

\* patrol.py:329-338: the descriptions of the active source=patrol triggers
existing_descs(store) ==
    {store.trig[t].description :
        t \in {u \in TrigIds : store.trig[u].is_active /\ store.trig[u].source = "patrol"}}
    \cup {store.auto[n].description :
             n \in {m \in DOMAIN store.auto : store.auto[m].is_active}}

\* a condition column left NULL (models.py: condition is nullable)
NoCondition == [type |-> "None", value |-> NULL]

\* the UserTrigger row of patrol.py:370-377: eval_prompt is built from the
\* description; condition, composite_logic and base_streams_needed are not
\* passed and stay NULL ("None" / <<>> here)
AutoTrigger(desc, now) ==
    [trigger_type |-> "llm_evaluated", source |-> "patrol", description |-> desc,
     condition |-> NoCondition, composite_logic |-> "None",
     base_streams_needed |-> <<>>, eval_prompt |-> <<"prompt", desc>>,
     is_active |-> TRUE, triggered_at |-> NULL, created_at |-> now]

\* patrol.py:340-389: the loop over the anomalies.  primary and existing are
\* the two sets computed before the loop (patrol.py:319-338); the loop does
\* not add to them.  made lists the descriptions for which a trigger was
\* added and the notification sent (patrol.py:358-380).
RECURSIVE auto_trigger_loop(_, _, _, _, _)
auto_trigger_loop(store, anomalies, primary, existing, now) ==
    IF anomalies = <<>> THEN [tx |-> store, made |-> <<>>]
    ELSE LET anomaly == Head(anomalies)
             skipped == \/ anomaly.symbol = NoSymbol
                        \/ (primary # {} /\ anomaly.symbol \notin primary)
                        \/ anomaly.detail \in existing
             store1 == IF skipped THEN store
                       ELSE [store EXCEPT
                                !.auto = Append(@, AutoTrigger(anomaly.detail, now))]
             rest == auto_trigger_loop(store1, Tail(anomalies), primary, existing, now)
         IN  [tx |-> rest.tx,
              made |-> IF skipped THEN rest.made
                       ELSE <<anomaly.detail>> \o rest.made]

\* patrol.py:300-391
auto_generate_triggers(store, anomalies, now) ==
    IF anomalies = <<>> THEN [tx |-> store, made |-> <<>>]
    ELSE auto_trigger_loop(store, anomalies, primary_symbols(store),
                           existing_descs(store), now)

\* how often d occurs in the sequence made
Occurrences(made, d) == Cardinality({n \in DOMAIN made : made[n] = d})

\* patrol.py:574-591 and run_patrol up to the query of step 3
\* (patrol.py:44-83, 176-184).  Step 1 moves temperatures in the view, step
\* 2 reads the anomalies off the streams, step 2-b adds the auto triggers and
\* sends their notifications.  plog.auto counts, for each description, the
\* triggers added and announced since the last one with it was retired.
PatrolBegin ==
    /\ pat.pc = "idle"
    /\ IF should_skip_patrol(db.user, wall)
       THEN /\ plog' = [plog EXCEPT !.skipped = TRUE]
            /\ UNCHANGED pat
       ELSE LET tx1 == auto_transition_temperatures(db, wall)
                r == auto_generate_triggers(tx1, check_base_anomalies(tx1), wall)
            IN  /\ pat' = [pc |-> "llm",
                           tx |-> r.tx,
                           queue |-> SortedSeq(LlmTriggers(r.tx))]
                /\ plog' = [plog EXCEPT !.auto = [d \in AnomalyDetails |->
                                Min(@[d] + Occurrences(r.made, d), 2)]]
    /\ UNCHANGED <<db, wall, triggerVars, tradeVars, baseVars, briefVars>>

\* patrol.py:189-221: the loop body of _evaluate_llm_triggers for the next
\* trigger; met is the answer of _llm_evaluate_trigger (patrol.py:428-505).
\* Only a YES writes: the trigger is retired in the view, the result message
\* is added, flushed and sent.
PatrolEvalTrigger(met) ==
    /\ pat.pc = "llm"
    /\ pat.queue # <<>>
    /\ LET t == Head(pat.queue)
           n == t - NTrig
       IN  IF t \in TrigIds
           THEN /\ pat' = [pat EXCEPT
                       !.queue = Tail(@),
                       !.tx = IF met
                              THEN [@ EXCEPT !.trig[t].triggered_at = wall,
                                             !.trig[t].is_active = FALSE]
                              ELSE @]
                /\ plog' = [plog EXCEPT
                       !.evaluated[t] = TRUE,
                       !.again[t] = @ \/ plog.yes[t] >= 1,
                       !.yes[t] = IF met THEN Min(@ + 1, 2) ELSE @,
                       !.answer[t] = IF met THEN "yes" ELSE "no"]
           ELSE /\ pat' = [pat EXCEPT
                       !.queue = Tail(@),
                       !.tx = IF met
                              THEN [@ EXCEPT !.auto[n].triggered_at = wall,
                                             !.auto[n].is_active = FALSE]
                              ELSE @]
                /\ plog' = IF met
                           THEN [plog EXCEPT !.auto[pat.tx.auto[n].description] = 0]
                           ELSE plog
    /\ UNCHANGED <<db, wall, triggerVars, tradeVars, baseVars, briefVars>>

\* patrol.py:85-90 and the query of check_unfollowed_signals,
\* processor.py:208-218
PatrolUnfollowedBegin ==
    /\ pat.pc = "llm"
    /\ pat.queue = <<>>
    /\ pat' = [pat EXCEPT !.pc = "unfollowed",
                          !.queue = SortedSeq(Unfollowed(pat.tx, wall))]
    /\ UNCHANGED <<db, wall, plog, triggerVars, tradeVars, baseVars, briefVars>>

\* processor.py:220-240: the loop body for the next unfollowed Signal.  After
\* a rollback inside create_episode the next read of an expired row raises
\* (signal.symbol at processor.py:227, or user.id at patrol.py:102 whose
\* handler at patrol.py:123 reads user.telegram_id), which ends the job at
\* patrol.py:595.
PatrolSignal(upsertOk) ==
    /\ pat.pc = "unfollowed"
    /\ pat.queue # <<>>
    /\ LET k == Head(pat.queue)
           tx1 == [pat.tx EXCEPT !.signals[k].trade_followed = "false"]
           ep == create_episode(tx1, db, "feedback", k, "unfollowed", upsertOk)
       IN  /\ pat' = IF ep.rolled
                     THEN [pc |-> "idle", tx |-> db, queue |-> <<>>]
                     ELSE [pat EXCEPT !.queue = Tail(@), !.tx = ep.tx]
           /\ plog' = [plog EXCEPT
                  !.handled[k] = IF ep.rolled THEN @ ELSE Min(@ + 1, 2),
                  !.answer = IF ep.rolled THEN [t \in TrigIds |-> "none"] ELSE @]
    /\ UNCHANGED <<db, wall, triggerVars, tradeVars, baseVars, briefVars>>

\* processor.py:242-247, patrol.py:95-98 and the query of
\* _process_deferred_requests, patrol.py:241-250
PatrolDeferredBegin ==
    /\ pat.pc = "unfollowed"
    /\ pat.queue = <<>>
    /\ pat' = [pat EXCEPT !.pc = "deferred",
                          !.queue = SortedSeq(DeferredTriggers(pat.tx))]
    /\ UNCHANGED <<db, wall, plog, triggerVars, tradeVars, baseVars, briefVars>>

\* patrol.py:253-287: the loop body of _process_deferred_requests for the
\* next trigger.  Either answer stamps triggered_at in the view, a YES also
\* retires the trigger; the result message is added, flushed and sent.
PatrolDeferred(met) ==
    /\ pat.pc = "deferred"
    /\ pat.queue # <<>>
    /\ LET t == Head(pat.queue)
       IN  /\ pat' = [pat EXCEPT
                  !.queue = Tail(@),
                  !.tx = IF met
                         THEN [@ EXCEPT !.trig[t].triggered_at = wall,
                                        !.trig[t].is_active = FALSE]
                         ELSE [@ EXCEPT !.trig[t].triggered_at = wall]]
           /\ plog' = [plog EXCEPT
                  !.evaluated[t] = TRUE,
                  !.again[t] = @ \/ plog.yes[t] >= 1,
                  !.yes[t] = IF met THEN Min(@ + 1, 2) ELSE @,
                  !.answer[t] = IF met THEN "yes" ELSE "no"]
    /\ UNCHANGED <<db, wall, triggerVars, tradeVars, baseVars, briefVars>>

\* patrol.py:100-128 and 577/591: the PatrolLog row is flushed and the
\* `async with` block is left; no statement of the job commits, so the view
\* is discarded.
PatrolEnd ==
    /\ pat.pc = "deferred"
    /\ pat.queue = <<>>
    /\ pat' = [pc |-> "idle", tx |-> db, queue |-> <<>>]
    /\ plog' = [plog EXCEPT !.cycles = Min(@ + 1, 2),
                            !.answer = [t \in TrigIds |-> "none"]]
    /\ UNCHANGED <<db, wall, triggerVars, tradeVars, baseVars, briefVars>>

\* the sources of models.py:227-229, all of them
AutoSources_with_user_request == {"llm_auto", "patrol", "user_request"}

\* the sources whose triggers the cleanup retires, main.py:524
AutoSources == {"llm_auto", "patrol"}

\* the query of _trigger_cleanup_job with only one of the two sources
StaleTriggers_llm_auto_only(store, now) ==
    {t \in TrigIds : /\ store.trig[t].source = "llm_auto"
                     /\ store.trig[t].is_active
                     /\ store.trig[t].triggered_at = NULL
                     /\ store.trig[t].created_at < now - 72 * Hour}

\* the query of _trigger_cleanup_job, main.py:518-530
StaleTriggers(store, now) ==
    {t \in TrigIds : /\ store.trig[t].source \in AutoSources
                     /\ store.trig[t].is_active
                     /\ store.trig[t].triggered_at = NULL
                     /\ store.trig[t].created_at < now - 72 * Hour}

\* main.py:509-541: a session of its own; the commit at main.py:536 is
\* reached only when something was selected
trigger_cleanup_job ==
    /\ pat.pc = "idle"
    /\ LET stale_triggers == StaleTriggers(db, wall)
       IN  db' = [db EXCEPT !.trig = [t \in TrigIds |->
                      IF t \in stale_triggers
                      THEN [@[t] EXCEPT !.is_active = FALSE]
                      ELSE @[t]]]
    /\ pat' = [pat EXCEPT !.tx = db']
    /\ UNCHANGED <<wall, plog, triggerVars, tradeVars, baseVars, briefVars>>

\* a Signal stored and committed by the demo endpoint, main.py:648-675
DemoSignal(created_at) ==
    [created_at |-> created_at, signal_type |-> "trade_signal", symbol |-> "SOL",
     direction |-> "long", trade_followed |-> "unset", trade_result_pnl |-> NULL]

\* main.py:605-680
demo_signal ==
    /\ pat.pc = "idle"
    /\ Len(db.signals) < MaxSignals
    /\ db' = [db EXCEPT !.signals = Append(@, DemoSignal(wall))]
    /\ pat' = [pat EXCEPT !.tx = db']
    /\ UNCHANGED <<wall, plog, triggerVars, tradeVars, baseVars, briefVars>>

\* the wall clock moves on by PatrolStep hours
PatrolClock ==
    /\ pat.pc = "idle"
    /\ wall < PatrolStep * Hour * MaxPatrolClock
    /\ wall' = wall + PatrolStep * Hour
    /\ UNCHANGED <<db, pat, plog, triggerVars, tradeVars, baseVars, briefVars>>

\* ------------------------------------------------------------- shutdown

\* main.py:229-280, the part of lifespan after the yield: the scheduler is
\* shut down without waiting (line 236; its executor cancels the job runs in
\* flight), the two polling tasks are cancelled and awaited (lines 240-254),
\* the database engine is disposed (lines 271-277).  A cancelled tick leaves
\* its `async with` block where it stands, which discards its view; pc
\* "stopped" is a task that has ended.
lifespan_shutdown ==
    /\ tp.pc # "stopped"
    /\ tp' = [pc |-> "stopped", tx |-> db, queue |-> <<>>]
    /\ hot' = [hot EXCEPT !.pc = "stopped", !.tx = db, !.queue = <<>>]
    /\ pat' = [pc |-> "stopped", tx |-> db, queue |-> <<>>]
    /\ brief' = [brief EXCEPT !.next = NULL]
    /\ UNCHANGED <<db, snap, wall, resetDue, log, exch, tlog, plog, baseVars>>

\* ------------------------------------------------------------------ init
\* trigger i: the first nAlert are alerts, the next nLlm llm_evaluated, the
\* rest signal triggers; conditions alternate price_above / price_below and
\* the sources run through the three values of models.py:227-229
TrigTable(nAlert, nLlm) ==
    [t \in TrigIds |->
        [trigger_type |-> IF t <= nAlert THEN "alert"
                          ELSE IF t <= nAlert + nLlm THEN "llm_evaluated"
                          ELSE "signal",
         condition |-> [type |-> IF t % 2 = 1 THEN "price_above" ELSE "price_below",
                        value |-> AlertValue],
         source |-> IF t % 3 = 1 THEN "user_request"
                    ELSE IF t % 3 = 2 THEN "patrol" ELSE "llm_auto",
         description |-> <<"trigger", "user", t>>,
         is_active |-> TRUE,
         triggered_at |-> NULL,
         created_at |-> 0]]

InitDb(nAlert, nLlm) ==
    [trig |-> TrigTable(nAlert, nLlm),
     auto |-> <<>>,
     asked |-> <<>>,
     connections |-> {"binance"},
     user |-> [daily_signal_count |-> 0, daily_signal_reset_at |-> NULL,
               last_active_at |-> 0, onboarding_step |-> 4,
               briefing_hour |-> DefaultBriefingHour],
     streams |-> <<>>,
     signals |-> <<>>,
     episodes |-> <<>>,
     trades |-> <<>>,
     conn |-> [last_checked_at |-> NULL],
     peer |-> [last_checked_at |-> 0],
     chat |-> [trade_reasoning |-> 0, trade_close |-> 0,
               position_commentary |-> FALSE, daily_briefing |-> 0]]

InitTlog ==
    [hit |-> FALSE,
     closes |-> [i \in TradeIds |-> 0],
     lastClose |-> NoClose,
     watch |-> FALSE,
     beyond |-> [i \in TradeIds |-> "none"],
     repeat |-> {},
     poll |-> NoPoll,
     dusted |-> {},
     raced |-> {},
     risks |-> FALSE]

InitPlog ==
    [cycles |-> 0, skipped |-> FALSE, handled |-> [k \in 1..MaxSignals |-> 0],
     evaluated |-> [t \in TrigIds |-> FALSE],
     again |-> [t \in TrigIds |-> FALSE],
     yes |-> [t \in TrigIds |-> 0],
     answer |-> [t \in TrigIds |-> "none"],
     auto |-> [d \in AnomalyDetails |-> 0]]

InitBlog ==
    [lastSet |-> [k \in Keys |-> <<>>],
     snap |-> [k \in Keys |-> NULL]]

InitLog ==
    [ticks |-> 0,
     alertFires |-> [t \in TrigIds |-> 0],
     signalsToday |-> 0,
     lastFire |-> NoFire,
     prev |-> [data |-> NULL, fired |-> FALSE, whole |-> FALSE, rerun |-> FALSE]]

InitJobs ==
    /\ hot = [pc |-> "idle", queue |-> <<>>, tx |-> db, data |-> NULL, fired |-> FALSE]
    /\ snap = NULL
    /\ resetDue = FALSE
    /\ log = InitLog
    /\ tp = [pc |-> "idle", tx |-> db, queue |-> <<>>]
    /\ pat = [pc |-> "idle", tx |-> db, queue |-> <<>>]
    /\ plog = InitPlog
    /\ cache = [redis |-> [k \in Keys |-> <<>>], mem |-> [k \in Keys |-> <<>>]]
    /\ blog = InitBlog
    /\ brief = [next |-> NULL, sent |-> <<>>]

InitOther ==
    /\ InitJobs
    /\ wall = 0

InitRest ==
    /\ InitOther
    /\ exch = [orders |-> <<>>, bal |-> [a \in Assets |-> 0]]

Init ==
    /\ \E nAlert \in 0..MaxAlerts : \E nLlm \in 0..1 :
          db = InitDb(nAlert, nLlm)
    /\ InitRest
    /\ tlog = InitTlog

InitTrade ==
    /\ db = [InitDb(1, 1) EXCEPT !.signals = <<DemoSignal(0)>>]
    /\ InitRest
    /\ tlog = InitTlog

\* The hot loop where the database returns the triggers in id order, one of
\* the orders it can return.
NextTrigger ==
    \/ \E fetched \in Prices \cup {NULL} :
          HotTickBegin(fetched, SortedSeq(ActiveTriggers(db)))
    \/ \E c \in BOOLEAN, l \in BOOLEAN, u \in BOOLEAN :
          HotEvalTrigger(c, l, u)
    \/ HotTickEnd
    \/ ClockAdvance
    \/ daily_signal_reset_job

SpecTrigger == Init /\ [][NextTrigger]_vars

NextTrade ==
    \/ TradeTickBegin
    \/ \E b \in BOOLEAN, twice \in BOOLEAN : PollTrades(b, twice)
    \/ \E b \in BOOLEAN, ok \in BOOLEAN, last \in TickerPrices,
          f \in BOOLEAN, u \in BOOLEAN : DetectClosed(b, ok, last, f, u)
    \/ monitor_positions
    \/ TradeTickEnd
    \/ \E symbol \in Symbols, side \in Sides : PlaceOrder(symbol, side)
    \/ \E asset \in Assets : Withdraw(asset)
    \/ TradeClock

SpecTrade == InitTrade /\ [][NextTrade]_vars

\* The hot loop of a user with three live alert/signal triggers (the later
\* ones were removed); the database returns them in any order.
InitOrder ==
    /\ db = [InitDb(1, 1) EXCEPT !.trig = [t \in TrigIds |->
                 IF t > LiveTriggers THEN [@[t] EXCEPT !.is_active = FALSE] ELSE @[t]]]
    /\ InitRest
    /\ tlog = InitTlog

\* every list of live triggers without repetition
TriggerLists == UNION {QueryResults(S) : S \in SUBSET (1..LiveTriggers)}

NextOrder ==
    \/ \E fetched \in Prices \cup {NULL}, triggers \in TriggerLists :
          HotTickBegin(fetched, triggers)
    \/ \E c \in BOOLEAN, l \in BOOLEAN, u \in BOOLEAN :
          HotEvalTrigger(c, l, u)
    \/ HotTickEnd

SpecOrder == InitOrder /\ [][NextOrder]_vars

\* the trade poll loop with the position commentaries observed
InitPosition ==
    /\ db = [InitDb(1, 1) EXCEPT !.signals = <<DemoSignal(0)>>]
    /\ InitRest
    /\ tlog = [InitTlog EXCEPT !.watch = TRUE]

SpecPosition == InitPosition /\ [][NextTrade]_vars

\* a position opened and recorded before, as poll_trades left it
HeldTrade ==
    [symbol |-> "SOL/USDT", side |-> "buy", entry_price |-> EntryPrice,
     size |-> OrderAmount, status |-> "open", opened_at |-> 0,
     exit_price |-> NULL, pnl_percent |-> Zero, pnl_amount |-> 0,
     closed_at |-> NULL, episode_id |-> NULL]

\* The trade poll loop of a user whose exchange connection was stored at time
\* 0 (auth.py:110-118 sets last_checked_at to the time of connecting), with
\* or without a position held since then.
InitPolling ==
    /\ \E held \in BOOLEAN :
          /\ db = [InitDb(1, 1) EXCEPT
                      !.conn.last_checked_at = 0,
                      !.trades = IF held THEN <<HeldTrade>> ELSE <<>>,
                      !.chat.trade_reasoning = IF held THEN 1 ELSE 0]
          /\ exch = [orders |-> <<>>,
                     bal |-> [a \in Assets |->
                                 IF held /\ a = BaseOf(HeldTrade.symbol)
                                 THEN OrderAmount ELSE 0]]
    /\ InitOther
    /\ tlog = [InitTlog EXCEPT !.watch = TRUE]

NextPolling ==
    \/ TradeTickBegin
    \/ \E b \in BOOLEAN, twice \in BOOLEAN : PollTrades(b, twice)
    \/ \E b \in BOOLEAN, ok \in BOOLEAN, last \in TickerPrices,
          f \in BOOLEAN, u \in BOOLEAN : DetectClosed(b, ok, last, f, u)
    \/ monitor_positions
    \/ TradeTickEnd
    \/ \E symbol \in Symbols, side \in Sides : PlaceOrder(symbol, side)
    \/ \E asset \in Assets : Withdraw(asset)
    \/ QuietClock

SpecPolling == InitPolling /\ [][NextPolling]_vars

\* The trade poll loop serving two users through the session of each cycle:
\* a user with no position first, then the modelled user, who holds a
\* position opened at time 0 and was sent a trade signal for its symbol then.
InitShared ==
    /\ db = [InitDb(1, 1) EXCEPT
                !.conn.last_checked_at = 0,
                !.trades = <<HeldTrade>>,
                !.signals = <<DemoSignal(0)>>,
                !.chat.trade_reasoning = 1]
    /\ exch = [orders |-> <<>>,
               bal |-> [a \in Assets |->
                           IF a = BaseOf(HeldTrade.symbol) THEN OrderAmount ELSE 0]]
    /\ InitOther
    /\ tlog = InitTlog

NextShared ==
    \/ TradeTickBeginPeer
    \/ \E b \in BOOLEAN : PollTrades(b, FALSE)
    \/ \E b \in BOOLEAN, ok \in BOOLEAN, last \in TickerPrices,
          f \in BOOLEAN, u \in BOOLEAN : DetectClosed(b, ok, last, f, u)
    \/ monitor_positions
    \/ TradeTickEnd
    \/ \E symbol \in Symbols, side \in Sides : PlaceOrder(symbol, side)
    \/ \E asset \in Assets : Withdraw(asset)
    \/ QuietClock

SpecShared == InitShared /\ [][NextShared]_vars

\* The trade poll loop with the time between a poll's fetch and its end, for
\* a user who holds a position; the connection was last polled one cycle ago.
InitRace ==
    /\ db = [InitDb(1, 1) EXCEPT
                !.conn.last_checked_at = 0,
                !.trades = <<HeldTrade>>,
                !.chat.trade_reasoning = 1]
    /\ exch = [orders |-> <<>>,
               bal |-> [a \in Assets |->
                           IF a = BaseOf(HeldTrade.symbol) THEN OrderAmount ELSE 0]]
    /\ InitJobs
    /\ wall = QuietStep
    /\ tlog = InitTlog

NextRace ==
    \/ TradeTickBegin
    \/ PollFetch
    \/ PollLatency
    \/ \E symbol \in Symbols, side \in Sides : FillDuringPoll(symbol, side)
    \/ PollRecord
    \/ \E ok \in BOOLEAN, last \in TickerPrices, u \in BOOLEAN :
          DetectClosed(TRUE, ok, last, TRUE, u)
    \/ monitor_positions
    \/ TradeTickEnd
    \/ \E symbol \in Symbols, side \in Sides : PlaceOrder(symbol, side)

SpecRace == InitRace /\ [][NextRace]_vars

\* the user fills a further order on the symbol of the position they hold,
\* as PlaceOrder does for any symbol
AddToPosition(side) ==
    /\ tp.pc = "idle"
    /\ Len(exch.orders) < MaxBurst
    /\ exch' = [orders |-> Append(exch.orders,
                              [symbol |-> HeldTrade.symbol, side |-> side,
                               amount |-> OrderAmount,
                               cost |-> EntryPrice * OrderAmount,
                               timestamp |-> wall]),
                bal |-> [exch.bal EXCEPT ![BaseOf(HeldTrade.symbol)] =
                                            IF side = "buy" THEN @ + OrderAmount ELSE 0]]
    /\ UNCHANGED <<db, wall, tp, tlog, triggerVars, patrolVars, baseVars, briefVars>>

\* the wall clock moves on by TimeStep seconds, a little further than
\* TradeClock takes it
BurstClock ==
    /\ tp.pc = "idle"
    /\ wall < TimeStep * MaxBurstClock
    /\ wall' = wall + TimeStep
    /\ UNCHANGED <<db, tp, exch, tlog, triggerVars, patrolVars, baseVars, briefVars>>

\* The trade poll loop of a user who holds a position and fills further
\* orders on its symbol within seconds.
InitDedup ==
    /\ db = [InitDb(1, 1) EXCEPT
                !.conn.last_checked_at = 0,
                !.trades = <<HeldTrade>>,
                !.chat.trade_reasoning = 1]
    /\ exch = [orders |-> <<>>,
               bal |-> [a \in Assets |->
                           IF a = BaseOf(HeldTrade.symbol) THEN OrderAmount ELSE 0]]
    /\ InitOther
    /\ tlog = [InitTlog EXCEPT !.watch = TRUE]

NextDedup ==
    \/ TradeTickBegin
    \/ PollTrades(TRUE, FALSE)
    \/ \E ok \in BOOLEAN, last \in TickerPrices, u \in BOOLEAN :
          DetectClosed(TRUE, ok, last, TRUE, u)
    \/ monitor_positions
    \/ TradeTickEnd
    \/ \E side \in Sides : AddToPosition(side)
    \/ BurstClock

SpecDedup == InitDedup /\ [][NextDedup]_vars

\* what a close left in a Trade row: a gain, a loss, or no P&L (exit price 0,
\* trade_detector.py:330-336)
ExitPrices == TickerPrices \cup {0}

\* a Trade row closed before: opened at time 0 or, when recent, at the time
\* of its close
PastTrade(exit_price, closed_at, recent) ==
    [HeldTrade EXCEPT !.status = "closed",
                      !.opened_at = IF recent THEN closed_at ELSE 0,
                      !.exit_price = exit_price,
                      !.pnl_percent = pnl_pct(HeldTrade, exit_price),
                      !.pnl_amount = pnl_amount(HeldTrade, exit_price),
                      !.closed_at = closed_at]

\* The trade poll loop of a user who has closed up to MaxHistory trades
\* before, one per second after the first hour, the last three of them opened
\* within the hour before now or none, and who has just sold, on the exchange,
\* the one position still recorded as open.
InitRisk ==
    /\ \E n \in 0..MaxHistory : \E exits \in [1..n -> ExitPrices] :
       \E k \in {0, Min(n, 3)} :
          db = [InitDb(1, 1) EXCEPT
                   !.conn.last_checked_at = 0,
                   !.trades = <<HeldTrade>> \o
                              [j \in 1..n |-> PastTrade(exits[j], Hour + j, j > n - k)],
                   !.chat.trade_reasoning = 1 + n,
                   !.chat.trade_close = n]
    /\ exch = [orders |-> <<>>, bal |-> [a \in Assets |-> 0]]
    /\ InitJobs
    /\ wall = Hour + MaxHistory + 1
    /\ tlog = [InitTlog EXCEPT !.watch = TRUE, !.risks = TRUE]

NextRisk ==
    \/ TradeTickBegin
    \/ PollTrades(TRUE, FALSE)
    \/ \E tickerOk, upsertOk \in BOOLEAN : \E last \in TickerPrices :
          DetectClosed(TRUE, tickerOk, last, TRUE, upsertOk)
    \/ monitor_positions
    \/ TradeTickEnd

SpecRisk == InitRisk /\ [][NextRisk]_vars

InitPatrol ==
    /\ db = InitDb(0, 2)
    /\ InitRest
    /\ tlog = InitTlog

NextPatrol ==
    \/ PatrolBegin
    \/ \E met \in BOOLEAN : PatrolEvalTrigger(met)
    \/ PatrolUnfollowedBegin
    \/ \E u \in BOOLEAN : PatrolSignal(u)
    \/ PatrolDeferredBegin
    \/ \E met \in BOOLEAN : PatrolDeferred(met)
    \/ PatrolEnd
    \/ trigger_cleanup_job
    \/ demo_signal
    \/ PatrolClock

SpecPatrol == InitPatrol /\ [][NextPatrol]_vars

\* the streams of a user who finished onboarding, their polling and snapshot
InitCache ==
    /\ db = InitDb(1, 1)
    /\ InitRest
    /\ tlog = InitTlog

StreamLists == {<<>>} \cup {<<k>> : k \in StreamKinds}

NextCache ==
    \/ \E needed \in StreamLists, addition \in StreamLists :
          chat_post_process(needed, addition)
    \/ \E i \in 1..MaxStreams, data \in Values, ok \in BOOLEAN :
          PollStream(i, data, ok)
    \/ \E ok \in BOOLEAN : HotSnapshot(ok)
    \/ CacheClock

SpecCache == InitCache /\ [][NextCache]_vars

\* a user in the last onboarding step, then chatting over weeks
InitBase ==
    /\ db = [InitDb(1, 1) EXCEPT !.user.onboarding_step = 3]
    /\ InitRest
    /\ tlog = InitTlog

NextBase ==
    \/ handle_style_input
    \/ \E needed \in StreamLists, addition \in StreamLists :
          chat_post_process(needed, addition)
    \/ temperature_management_job
    \/ DayClock

SpecBase == InitBase /\ [][NextBase]_vars

\* ------------------------------------------------ triggers made in chat
\* the condition objects a reply's trigger_action can carry: the leaf form of
\* prompts.py:31 and the composite form of prompts.py:37, whose logic text
\* sits inside the condition
LeafCondition == [type |-> "price_above", value |-> AlertValue]

CompositeCondition == [type |-> "composite", value |-> NULL]

\* the trigger_action objects of a parsed FORKER_META block (chat.py:84-87,
\* any JSON object the reply holds): a key the object lacks reads as "None"
\* (<<>> for the two list-valued keys); logic stands for the top-level key
\* "logic" or "composite_logic" (chat.py:135)
TriggerActions ==
    [type : {"None", "alert", "signal", "llm_evaluated"},
     condition : {NoCondition, LeafCondition, CompositeCondition},
     logic : {"None", "top3_volume > btc_volume"},
     base_streams_needed : StreamLists,
     eval_prompt : {<<>>, <<"prompt">>}]

ActionLists == {<<>>} \cup {<<a>> : a \in TriggerActions}

Intents == {"general", "patrol_deferred"}

\* chat.py:119-124: the trigger_action made up for a patrol_deferred reply
\* that carries none
DeferredAction ==
    [type |-> "llm_evaluated", condition |-> NoCondition, logic |-> "None",
     base_streams_needed |-> <<>>, eval_prompt |-> <<"prompt">>]

\* chat.py:130-141: the row is filled from the keys as they are
UserTriggerOf(trigger, now) ==
    [trigger_type |-> IF trigger.type = "None" THEN "alert" ELSE trigger.type,
     condition |-> trigger.condition,
     composite_logic |-> trigger.logic,
     base_streams_needed |-> trigger.base_streams_needed,
     eval_prompt |-> trigger.eval_prompt,
     source |-> "user_request",
     is_active |-> TRUE, triggered_at |-> NULL, created_at |-> now]

\* handlers.py:406-420 with chat.py:107-174: the whole of steps a-0, a and b
\* for a reply whose meta holds intent, trigger_action (<<>> for null) and
\* base_addition (<<>> for none); the new trigger row goes to db.asked, the
\* streams as in chat_post_process; committed at handlers.py:420
post_process(intent, trigger_action, addition) ==
    /\ db.user.onboarding_step >= 4
    /\ LET action == IF intent = "patrol_deferred" /\ trigger_action = <<>>
                     THEN <<DeferredAction>> ELSE trigger_action
           needed == IF action = <<>> THEN <<>> ELSE action[1].base_streams_needed
       IN  /\ Len(db.asked) + Len(action) <= MaxAsked
           /\ Len(db.streams) + Len(needed) + Len(addition) <= MaxStreams
           /\ db' = [db EXCEPT
                        !.asked = @ \o [n \in DOMAIN action |->
                                            UserTriggerOf(action[n], wall)],
                        !.streams =
                            @ \o [n \in DOMAIN needed |-> NewStream(needed[n], wall)]
                              \o [n \in DOMAIN addition |->
                                      NewStream(addition[n], wall)]]
    /\ UNCHANGED <<wall, triggerVars, tradeVars, patrolVars, baseVars, briefVars>>

\* a user who finished onboarding, asking for triggers in chat
InitShape ==
    /\ db = InitDb(1, 1)
    /\ InitRest
    /\ tlog = InitTlog

NextShape ==
    \E intent \in Intents, trigger_action \in ActionLists, addition \in StreamLists :
        post_process(intent, trigger_action, addition)

SpecShape == InitShape /\ [][NextShape]_vars

\* the trade poll loop and the patrol job of one user, until the process is
\* shut down
InitShutdown ==
    /\ db = InitDb(1, 0)
    /\ InitRest
    /\ tlog = InitTlog

NextShutdown ==
    \/ TradeTickBegin
    \/ \E b \in BOOLEAN : PollTrades(b, FALSE)
    \/ \E b \in BOOLEAN, ok \in BOOLEAN, last \in TickerPrices, u \in BOOLEAN :
          DetectClosed(b, ok, last, TRUE, u)
    \/ monitor_positions
    \/ TradeTickEnd
    \/ \E symbol \in Symbols, side \in Sides : PlaceOrder(symbol, side)
    \/ \E asset \in Assets : Withdraw(asset)
    \/ PatrolBegin
    \/ PatrolUnfollowedBegin
    \/ PatrolDeferredBegin
    \/ PatrolEnd
    \/ lifespan_shutdown

SpecShutdown == InitShutdown /\ [][NextShutdown]_vars

\* a user just created (auth.py:34-43: stage 0, no connection) going through
\* onboarding over some days
InitOnboarding ==
    /\ db = [InitDb(1, 1) EXCEPT !.user.onboarding_step = 0,
                                 !.connections = {}]
    /\ InitRest
    /\ tlog = InitTlog

NextOnboarding ==
    \/ start_command
    \/ callback_done
    \/ \E exchange_name \in Exchanges, connected \in BOOLEAN :
          handle_api_key_input(exchange_name, connected)
    \/ handle_style_input
    \/ DayClock

SpecOnboarding == InitOnboarding /\ [][NextOnboarding]_vars

\* The hour from 00:00 UTC (09:00 KST) on, in which the scheduler is started,
\* for a user who may set the briefing hour to 10.
InitBriefing ==
    /\ db = InitDb(1, 1)
    /\ InitRest
    /\ tlog = InitTlog

NextBriefing ==
    \/ scheduler_start
    \/ \E mapped \in BOOLEAN, sendOk \in BOOLEAN : daily_briefing_job(mapped, sendOk)
    \/ \E hour \in {DefaultBriefingHour, 10} : set_briefing_hour(hour)
    \/ BriefClock

SpecBriefing == InitBriefing /\ [][NextBriefing]_vars

\* Patrol over the streams of a user who has traded nothing, SOL or BTC and
\* has no Signal waiting for follow-up
TradeHistories ==
    {<<>>, <<HeldTrade>>, <<[HeldTrade EXCEPT !.symbol = "BTC/USDT"]>>}

InitAnomaly ==
    /\ \E trades \in TradeHistories :
          db = [InitDb(0, 2) EXCEPT !.trades = trades]
    /\ InitRest
    /\ tlog = InitTlog

\* a chat turn and a stream poll that fall between two patrol runs
ChatBetweenPatrols(needed, addition) ==
    /\ pat.pc = "idle"
    /\ chat_post_process(needed, addition)

PollBetweenPatrols(i, data) ==
    /\ pat.pc = "idle"
    /\ PollStream(i, data, TRUE)

NextAnomaly ==
    \/ \E needed \in StreamLists, addition \in StreamLists :
          ChatBetweenPatrols(needed, addition)
    \/ \E i \in 1..MaxStreams, data \in Values :
          PollBetweenPatrols(i, data)
    \/ PatrolBegin
    \/ \E met \in BOOLEAN : PatrolEvalTrigger(met)
    \/ PatrolUnfollowedBegin
    \/ PatrolDeferredBegin
    \/ \E met \in BOOLEAN : PatrolDeferred(met)
    \/ PatrolEnd

SpecAnomaly == InitAnomaly /\ [][NextAnomaly]_vars

\* ------------------------------------------------------- claims: triggers

\* C1: across any sequence of hot ticks the Trigger Engine fires a given alert
\* trigger at most once (firing retires it in the store, so no later tick,
\* which reloads the active triggers from the store, fires it again).
C1_AlertFiresAtMostOnce ==
    \A t \in TrigIds : log.alertFires[t] <= 1

\* C2: when a whole hot tick has run on a snapshot and the next tick runs on
\* the same snapshot, that next tick fires no trigger.
C2_RerunFiresNothing ==
    log.prev.rerun => ~log.prev.fired

C6_ClosedOnce ==
    /\ [](\A i \in DOMAIN db.trades :
             /\ tlog.closes[i] <= 1
             /\ Cardinality({e \in DOMAIN db.episodes :
                                /\ db.episodes[e].episode_type = "trade"
                                /\ db.episodes[e].ref = i}) <= 1
             /\ db.chat.trade_close <= Cardinality({j \in DOMAIN db.trades :
                                                     db.trades[j].status = "closed"}))
    /\ [][/\ \A i \in DOMAIN db.trades :
               db.trades[i].status = "closed" =>
                   (i \in DOMAIN db'.trades /\ db'.trades[i] = db.trades[i])
          /\ \A i \in DOMAIN db'.trades \ DOMAIN db.trades :
               db'.trades[i].status = "open"]_vars

\* C6 witness: a trade closed at an earlier instant, and a later cycle has
\* gone through close detection without touching it.
C6_Witness ==
    /\ tp.pc = "end"
    /\ \E i \in DOMAIN db.trades :
          /\ db.trades[i].status = "closed"
          /\ db.trades[i].closed_at < wall
          /\ tlog.closes[i] = 1

\* C7: however often an order is presented, the store never holds two Trade
\* rows of one symbol opened within the duplicate window of each other, and
\* it holds exactly one reasoning message per Trade row.
C7_DedupIdempotent ==
    /\ \A i, j \in DOMAIN db.trades :
          (i # j /\ db.trades[i].symbol = db.trades[j].symbol) =>
              \/ db.trades[i].opened_at - db.trades[j].opened_at > DedupWindow
              \/ db.trades[j].opened_at - db.trades[i].opened_at > DedupWindow
    /\ db.chat.trade_reasoning = Len(db.trades)

\* C7 witness: the one order of the account was presented again and the
\* duplicate check answered "already handled".
C7_Witness ==
    /\ tlog.hit
    /\ Len(exch.orders) = 1
    /\ Len(db.trades) = 1
    /\ db.chat.trade_reasoning = 1

\* C8: every closed Trade has a pnl_percent with the sign of
\* (exit_price - entry_price) for buy/long and the opposite sign for
\* sell/short, and pnl_amount = (exit_price - entry_price) * size.
C8_PnlSign ==
    \A i \in DOMAIN db.trades :
        db.trades[i].status = "closed" =>
            LET t == db.trades[i]
                d == t.exit_price - t.entry_price
                long == t.side \in {"buy", "long"}
            IN  /\ (t.pnl_percent.num > 0) = (IF long THEN d > 0 ELSE d < 0)
                /\ (t.pnl_percent.num < 0) = (IF long THEN d < 0 ELSE d > 0)
                /\ t.pnl_amount = d * t.size

\* C9: when the vector upsert failed during the last close handling, the
\* Trade is closed in the store and its trade Episode row is stored.
C9_UpsertFailureKeepsState ==
    tlog.lastClose.upsert_failed =>
        LET i == tlog.lastClose.trade
        IN  /\ db.trades[i].status = "closed"
            /\ \E e \in DOMAIN db.episodes :
                   /\ db.episodes[e].episode_type = "trade"
                   /\ db.episodes[e].ref = i

\* ----------------------------------------------------------- claims: Patrol

\* C10: once a Patrol cycle has handled a Signal as unfollowed (flag set,
\* feedback Episode created and its vector upserted), the store
\* holds the Signal with trade_followed = false and exactly one feedback
\* Episode with result = unfollowed for it, and no later cycle handles it
\* again.
C10_UnfollowedOnce ==
    pat.pc = "idle" =>
        \A k \in DOMAIN db.signals :
            plog.handled[k] >= 1 =>
                /\ plog.handled[k] = 1
                /\ db.signals[k].trade_followed = "false"
                /\ Cardinality({e \in DOMAIN db.episodes :
                                   /\ db.episodes[e].episode_type = "feedback"
                                   /\ db.episodes[e].result = "unfollowed"
                                   /\ db.episodes[e].ref = k}) = 1

\* C11: a trigger-cleanup tick leaves inactive every trigger of source
\* llm_auto or patrol that was active, had not fired and was created more
\* than 72 hours before, whether or not Patrol has evaluated it meanwhile.
C11_CleanupRetiresStale ==
    [][trigger_cleanup_job =>
          \A t \in TrigIds :
              (/\ db.trig[t].source \in {"llm_auto", "patrol"}
               /\ db.trig[t].is_active
               /\ plog.yes[t] = 0
               /\ wall - db.trig[t].created_at > 72 * Hour)
              => ~db'.trig[t].is_active]_vars

\* C11 witness: an auto-created trigger that Patrol evaluated, always with the
\* answer NO, is older than 72 hours and the store holds it as inactive.
C11_Witness ==
    \E t \in TrigIds :
        /\ db.trig[t].source \in {"llm_auto", "patrol"}
        /\ db.trig[t].trigger_type = "llm_evaluated"
        /\ plog.evaluated[t]
        /\ plog.yes[t] = 0
        /\ wall - db.trig[t].created_at > 72 * Hour
        /\ ~db.trig[t].is_active

\* C12: when a Patrol cycle ends, every llm_evaluated trigger whose evaluation
\* in that cycle answered NO is held by the store with triggered_at = the
\* evaluation time and is_active = TRUE, so the next cycle selects it again.
C12_NoStampsTriggeredAt ==
    [][(pat.pc # "idle" /\ pat'.pc = "idle") =>
          \A t \in TrigIds :
              plog.answer[t] = "no" =>
                  /\ db'.trig[t].triggered_at = wall
                  /\ db'.trig[t].is_active
                  /\ t \in LlmTriggers(db')]_vars

\* C13: after a Patrol cycle in which the LLM answered YES for a trigger, the
\* store holds the trigger retired (is_active = FALSE, triggered_at set), the
\* result message was sent once, and no later cycle evaluates the trigger or
\* sends its result again.
C13_YesRetires ==
    pat.pc = "idle" =>
        \A t \in TrigIds :
            plog.yes[t] >= 1 =>
                /\ ~db.trig[t].is_active
                /\ db.trig[t].triggered_at # NULL
                /\ plog.yes[t] = 1
                /\ ~plog.again[t]

\* ------------------------------------------- claims: Base streams, cache

\* C14: the snapshot taken by get_hot_data holds, for every hot stream, under
\* the stream's key the value the cache answers for that key if it answers
\* one, otherwise the stream's last_value, and no entry when there is neither.
C14_HotSnapshotPrefersCache ==
    [][\A ok \in BOOLEAN :
          HotSnapshot(ok) =>
              \A i \in StreamsOf(db, "hot") :
                  LET s == db.streams[i]
                      key == cache_key(s.stream_type, s.symbol)
                      cached == cache_get(cache, key, wall, ok).value
                  IN  blog'.snap[key] = IF cached # NULL THEN cached
                                        ELSE s.last_value]_vars

\* C15: a call of auto_transition_temperatures leaves every stream last
\* mentioned more than 30 days ago cold and every stream last mentioned more
\* than 7 and at most 30 days ago warm.
C15_AutoTransition ==
    [][temperature_management_job =>
          \A i \in DOMAIN db.streams :
              LET age == wall - db.streams[i].last_mentioned_at
              IN  /\ age > WARM_THRESHOLD_DAYS * Day =>
                         db'.streams[i].temperature = "cold"
                  /\ (age > HOT_THRESHOLD_DAYS * Day /\ age <= WARM_THRESHOLD_DAYS * Day) =>
                         db'.streams[i].temperature = "warm"]_vars

\* C15 witness: the job has run over a stream older than 30 days and over one
\* between 7 and 30 days old.
C15_Witness ==
    /\ \E i \in DOMAIN db.streams :
          /\ wall - db.streams[i].last_mentioned_at > WARM_THRESHOLD_DAYS * Day
          /\ db.streams[i].temperature = "cold"
    /\ \E i \in DOMAIN db.streams :
          /\ wall - db.streams[i].last_mentioned_at > HOT_THRESHOLD_DAYS * Day
          /\ wall - db.streams[i].last_mentioned_at <= WARM_THRESHOLD_DAYS * Day
          /\ db.streams[i].temperature = "warm"

\* C16: a chat turn that mentions a symbol leaves every stream the user
\* already had for that symbol with temperature = hot and
\* last_mentioned_at = now.
C16_RementionRestoresHot ==
    [][\A needed \in StreamLists, addition \in StreamLists :
          chat_post_process(needed, addition) =>
              \A i \in DOMAIN db.streams :
                  (\E n \in DOMAIN (needed \o addition) :
                       (needed \o addition)[n][2] = db.streams[i].symbol)
                  => /\ db'.streams[i].temperature = "hot"
                     /\ db'.streams[i].last_mentioned_at = wall]_vars

\* C17: the store never holds two BaseStream rows with the same stream_type
\* and symbol for the user.
C17_StreamsUnique ==
    \A i, j \in DOMAIN db.streams :
        (/\ db.streams[i].stream_type = db.streams[j].stream_type
         /\ db.streams[i].symbol = db.streams[j].symbol) => i = j

\* C18: a user with onboarding_step = 4 has each of the nine preset streams
\* exactly once, as a hot stream.
C18_PresetAfterOnboarding ==
    db.user.onboarding_step = 4 =>
        \A p \in Presets :
            Cardinality({i \in DOMAIN db.streams :
                            /\ db.streams[i].stream_type = p[1]
                            /\ db.streams[i].symbol = p[2]}) = 1

\* C19: while the ttl of the latest _cache_set of a key is running, a
\* _cache_get of that key answers the value that was set, whether or not
\* Redis can be reached at the time of the get.
C19_GetReturnsLastSet ==
    \A k \in Keys : \A ok \in BOOLEAN :
        (blog.lastSet[k] # <<>> /\ wall < blog.lastSet[k][1].expires_at) =>
            cache_get(cache, k, wall, ok).value = blog.lastSet[k][1].value

\* ------------------------------------------- claims: position commentary

\* C20: no trade gets a position commentary on a threshold on which the
\* trade-poll tick before has already commented for that trade, the P&L
\* having been beyond that threshold at both ticks.
C20_CommentaryOncePerCrossing ==
    tlog.repeat = {}

\* ------------------------------------------------ claims: trade feedback

\* C21: for every Trade the store holds as closed, if a trade_signal of the
\* trade's base symbol was created in [opened_at - 24 h, opened_at + 1 h],
\* then a Signal of that window nearest to opened_at has trade_followed =
\* true and trade_result_pnl = the trade's pnl_percent, whatever the sign of
\* pnl_percent.
C21_CloseMarksSignal ==
    \A i \in DOMAIN db.trades :
        db.trades[i].status = "closed" =>
            LET trade == db.trades[i]
                dist(k) == IF db.signals[k].created_at >= trade.opened_at
                           THEN db.signals[k].created_at - trade.opened_at
                           ELSE trade.opened_at - db.signals[k].created_at
                related == {k \in DOMAIN db.signals :
                               /\ db.signals[k].signal_type = "trade_signal"
                               /\ db.signals[k].symbol = BaseOf(trade.symbol)
                               /\ db.signals[k].created_at >= trade.opened_at - 24 * Hour
                               /\ db.signals[k].created_at <= trade.opened_at + Hour}
            IN  related # {} =>
                    \E k \in related :
                        /\ \A j \in related : dist(k) <= dist(j)
                        /\ db.signals[k].trade_followed = "true"
                        /\ db.signals[k].trade_result_pnl = trade.pnl_percent

\* ---------------------------------------------- claims: evaluation order

\* C24: within one tick the loaded triggers are evaluated in ascending id
\* order, and a trigger that fires after another one has fired on the same
\* tick has the greater id.
C24_AscendingOrder ==
    /\ [](\A a, b \in DOMAIN hot.queue : a < b => hot.queue[a] < hot.queue[b])
    /\ [][(/\ hot.pc = "eval"
           /\ hot.fired
           /\ hot.queue # <<>>
           /\ check_condition(hot.tx.trig[Head(hot.queue)], [last |-> hot.data])
           /\ hot' # hot)
          => log.lastFire.trig < Head(hot.queue)]_vars

C30_CloseStepOrder ==
    (tlog.lastClose.trade # 0 /\ ~tlog.lastClose.upsert_failed) =>
        tlog.lastClose.steps = <<"feedback", "episode", "risk", "message">>

\* --------------------------------------------------- claims: trade polling

\* C27: every poll of the connection starts its order-fetch window at
\* max(last_checked_at, poll time - 5 min), poll time - 5 min when
\* last_checked_at is not set; the window never starts more than 5 minutes
\* before the poll.
C27_WindowAtMostFiveMinutes ==
    tlog.poll.since # NULL =>
        LET now == IF tlog.poll.at # NULL THEN tlog.poll.at ELSE wall
            floor == now - DefaultLookback
        IN  /\ tlog.poll.since = IF tlog.poll.last # NULL /\ tlog.poll.last > floor
                                 THEN tlog.poll.last ELSE floor
            /\ tlog.poll.since >= floor

\* C28: when a trade-poll tick in which the connection was polled without
\* error comes to its end, the store holds last_checked_at = the poll time of
\* that tick.
C28_LastCheckedAdvances ==
    [][(TradeTickEnd /\ tlog.poll.at # NULL) =>
          db'.conn.last_checked_at = tlog.poll.at]_vars

\* C29: between ticks, every order that a poll dropped while its balance
\* fetch had failed either is recorded as a Trade or still lies inside the
\* window of the next poll.
C29_BalanceFailureLosesNoOrder ==
    tp.pc = "idle" =>
        \A n \in tlog.dusted :
            \/ \E i \in DOMAIN db.trades :
                  /\ db.trades[i].symbol = exch.orders[n].symbol
                  /\ db.trades[i].opened_at = exch.orders[n].timestamp
            \/ exch.orders[n].timestamp > poll_since(db.conn, wall)

\* ----------------------------------------------------- claims: briefing

C22_AutoTriggerOnlyForTopSymbols ==
    /\ \A d \in AnomalyDetails :
          plog.auto[d] >= 1 => d[1] \in primary_symbols(db)
    /\ \A n \in DOMAIN pat.tx.auto :
          pat.tx.auto[n].description[1] \in primary_symbols(db)

\* C23: Patrol adds no auto trigger, and sends no notification, for an anomaly
\* whose description is that of an active source=patrol trigger, whether added
\* in an earlier cycle or earlier in the same cycle: for each description at
\* most one trigger is added until that trigger is retired.
C23_NoDuplicateAutoTrigger ==
    \A d \in AnomalyDetails : plog.auto[d] <= 1

\* ------------------------------------------------- claims on trigger cleanup

\* C35: a trigger-cleanup tick changes no trigger of source user_request,
\* however long that trigger has been active without firing.
C35_CleanupKeepsUserRequests ==
    [][trigger_cleanup_job =>
          \A t \in TrigIds :
              db.trig[t].source = "user_request" => db'.trig[t] = db.trig[t]]_vars

\* C35 witness: a cleanup has retired an auto-created trigger while a
\* user_request trigger of the same age, never fired, is still active.
C35_Witness ==
    \E t, u \in TrigIds :
        /\ db.trig[t].source = "user_request"
        /\ db.trig[t].is_active
        /\ db.trig[t].triggered_at = NULL
        /\ wall - db.trig[t].created_at > 72 * Hour
        /\ db.trig[u].source \in AutoSources
        /\ db.trig[u].created_at = db.trig[t].created_at
        /\ db.trig[u].triggered_at = NULL
        /\ ~db.trig[u].is_active

\* ------------------------------------------------- claims on the risk checks

\* C31: at a trade close, consecutive_losses is the number of leading losing
\* trades among the last five closed trades, newest first, the trade just
\* closed included; the warning is given if and only if consecutive_losses
\* is at least 3 or at least 3 trades were opened in the last hour.
C31_RiskChecks ==
    (tlog.lastClose.trade # 0 /\ ~tlog.lastClose.upsert_failed) =>
        LET closed == {i \in DOMAIN db.trades : db.trades[i].closed_at # NULL}
            newer(i) == Cardinality({j \in closed :
                            db.trades[j].closed_at > db.trades[i].closed_at})
            leading(n) == /\ n <= Cardinality(closed)
                          /\ \A i \in closed :
                                 newer(i) < n => db.trades[i].pnl_percent.num < 0
            streak == CHOOSE n \in 0..5 :
                          leading(n) /\ \A m \in 0..5 : leading(m) => m <= n
            opens_last_hour == Cardinality({i \in DOMAIN db.trades :
                                   wall - db.trades[i].opened_at <= Hour})
        IN  /\ tlog.lastClose.risk.consecutive_losses = streak
            /\ tlog.lastClose.risk.warning # "none"
                   <=> (streak >= 3 \/ opens_last_hour >= 3)

\* C31 witness: a close with a gain that follows three losses was handled,
\* with consecutive_losses = 0 and without a warning.
C31_Witness ==
    /\ tlog.lastClose.trade = 1
    /\ ~tlog.lastClose.upsert_failed
    /\ db.trades[1].status = "closed"
    /\ db.trades[1].pnl_percent.num > 0
    /\ Len(db.trades) >= 4
    /\ \A j \in (Len(db.trades) - 2)..Len(db.trades) : db.trades[j].pnl_percent.num < 0
    /\ tlog.lastClose.risk = NoRisk

\* ------------------------------------------------------ claims on onboarding

\* C32: the onboarding stage only moves forward along 0, 1, 2, 3, 4: no
\* operation lowers it, and from stage 4 it never changes.
C32_StageOnlyForward ==
    [][/\ db'.user.onboarding_step >= db.user.onboarding_step
       /\ db.user.onboarding_step = 4 => db'.user.onboarding_step = 4]_vars

\* -------------------------------------------------------- claims on shutdown

\* C33: on shutdown no new tick of a scheduled job or polling loop starts,
\* and the handlers in flight are awaited before the persistence layer is
\* torn down: a loop that has ended stays ended, and the step that tears
\* down finds no tick unfinished.
C33_ShutdownAwaitsHandlers ==
    /\ [][(tp.pc = "stopped" => tp'.pc = "stopped")
          /\ (pat.pc = "stopped" => pat'.pc = "stopped")]_vars
    /\ [][lifespan_shutdown => (tp.pc = "idle" /\ pat.pc = "idle")]_vars

\* ---------------------------------------------------- claims on trigger rows

\* C34: every trigger row of the store has the shape of its kind: an alert
\* has a leaf condition and no composite_logic; a signal has a leaf condition,
\* or composite_logic with a non-empty base_streams_needed; an llm_evaluated
\* trigger has an eval_prompt.  This holds for the rows made in chat and for
\* those made by Patrol.
C34_TriggerShapes ==
    LET leaf(row) == row.condition.type \notin {"None", "composite"}
        shaped(row) ==
            /\ row.trigger_type = "alert" =>
                   (leaf(row) /\ row.composite_logic = "None")
            /\ row.trigger_type = "signal" =>
                   \/ leaf(row)
                   \/ (row.composite_logic # "None" /\ row.base_streams_needed # <<>>)
            /\ row.trigger_type = "llm_evaluated" => row.eval_prompt # <<>>
    IN  /\ \A n \in DOMAIN db.auto : shaped(db.auto[n])
        /\ \A n \in DOMAIN pat.tx.auto : shaped(pat.tx.auto[n])
        /\ \A n \in DOMAIN db.asked : shaped(db.asked[n])

\* --------------------------------------------- claims on signal feedback

\* C36: once trade_followed of a Signal is set, to true by a trade close or
\* to false by the unfollowed reconciliation, no later step changes the
\* trade_followed or the trade_result_pnl of that Signal.
C36_FollowedIsFinal ==
    [][\A k \in DOMAIN db.signals :
          db.signals[k].trade_followed # "unset" =>
              /\ db'.signals[k].trade_followed = db.signals[k].trade_followed
              /\ db'.signals[k].trade_result_pnl = db.signals[k].trade_result_pnl]_vars

\* ------------------------------------------- claims on evaluations per run

\* C37: within one Patrol run no llm_evaluated trigger is evaluated by the
\* LLM twice or has two messages sent for it: the deferred-request step never
\* evaluates a trigger that the run has evaluated already.
C37_OneEvaluationPerRun ==
    [][\A met \in BOOLEAN :
          PatrolDeferred(met) => plog.answer[Head(pat.queue)] = "none"]_vars

\* ------------------------------------------ claims on the shared session

\* C38: in a cycle that serves several users through one session, handling
\* one user's event, failed or not, never discards a change the cycle has
\* already made for another user: a close detection leaves the other user's
\* pending change in the session or in the store.
C38_FailureKeepsPeerChanges ==
    [][\A b \in BOOLEAN, ok \in BOOLEAN, last \in TickerPrices,
          f \in BOOLEAN, u \in BOOLEAN :
          DetectClosed(b, ok, last, f, u) =>
              \/ tp'.tx.peer = tp.tx.peer
              \/ db'.peer = tp.tx.peer]_vars

\* ------------------------------------------- claims on orders during a poll

\* C39: no order is skipped because it was filled while a poll was between
\* its fetch and its write of the poll time: between cycles, every such order
\* either is recorded as a Trade or still lies inside the window of the next
\* poll.
C39_NoOrderSkippedByPoll ==
    tp.pc = "idle" =>
        \A n \in tlog.raced :
            \/ \E i \in DOMAIN db.trades :
                  /\ db.trades[i].symbol = exch.orders[n].symbol
                  /\ db.trades[i].opened_at = exch.orders[n].timestamp
            \/ exch.orders[n].timestamp > poll_since(db.conn, wall)

\* ------------------------------------------- claims on the duplicate lookup

\* C40: the duplicate lookup of handle_new_trade never raises, so no poll of
\* the connection is aborted by an order seen again: every poll that ran came
\* to its end and has its poll time.
C40_DedupLookupNeverRaises ==
    tlog.poll.since # NULL => tlog.poll.at # NULL

====
